---------------------------- MODULE Spec2Model ----------------------------
(***************************************************************************)
(* Content Filter browser extension.                                       *)
(*                                                                         *)
(* Two programs are modelled:                                              *)
(*   - the background service worker (src/src/background.ts): the         *)
(*     classification engine analyzeText with its keyword, script and AI   *)
(*     layers and the runtime message listener  (specification Spec);      *)
(*   - the content script (src/src/content.ts): scanning, hashing,         *)
(*     batching and presentation of the verdicts (specification SpecPage). *)
(*                                                                         *)
(* JavaScript strings are sequences of one-character strings.  An optional *)
(* value (undefined / null / a missing field) is the empty set, a present  *)
(* value v is the singleton {v}.                                           *)
(***************************************************************************)
EXTENDS Integers, Sequences, FiniteSets, TLC

(***************************************************************************)
(* Bounds of the model.                                                    *)
(***************************************************************************)
\* longest keyword string of a settings snapshot
MaxKwLen == 3
\* longest text of an analyzeText message
MaxTextLen == 3

None == {}
Some(x) == {x}
TheValue(o) == CHOOSE x \in o : TRUE

SeqsUpTo(S, n) == UNION {[1..k -> S] : k \in 0..n}

(***************************************************************************)
(* Characters.  U56FD is the Simplified form and U570B the Traditional     *)
(* form of the same word; both lie in U+4E00..U+9FFF.                      *)
(***************************************************************************)
KeywordChars == {"A", "b", ","}
TextChars == {"a", "B", "U56FD"}

\* the printable ASCII characters: Ascii[i] has code unit 31 + i (the double
\* quote, the backslash and the backtick are spelled out)
Ascii ==
  <<" ", "!", "QUOTE", "#", "$", "%", "&", "'", "(", ")", "*", "+",
   ",", "-", ".", "/", "0", "1", "2", "3", "4", "5", "6", "7",
   "8", "9", ":", ";", "<", "=", ">", "?", "@", "A", "B", "C",
   "D", "E", "F", "G", "H", "I", "J", "K", "L", "M", "N", "O",
   "P", "Q", "R", "S", "T", "U", "V", "W", "X", "Y", "Z", "[",
   "BACKSLASH", "]", "^", "_", "BACKTICK", "a", "b", "c", "d", "e", "f", "g",
   "h", "i", "j", "k", "l", "m", "n", "o", "p", "q", "r", "s",
   "t", "u", "v", "w", "x", "y", "z", "{", "|", "}", "~">>

\* the index of a character in Ascii, 0 for any other character
AsciiIndex(c) == IF \E i \in 1..Len(Ascii) : Ascii[i] = c
                 THEN CHOOSE i \in 1..Len(Ascii) : Ascii[i] = c ELSE 0

\* String.prototype.toLowerCase, per character: A..Z are Ascii[34..59]
LowerChar(c) == LET i == AsciiIndex(c)
                IN IF i >= 34 /\ i <= 59 THEN Ascii[i + 32] ELSE c
toLowerCase(s) == [i \in 1..Len(s) |-> LowerChar(s[i])]

IsSpace(c) == c = " "

\* String.prototype.trim
RECURSIVE TrimLeft(_)
TrimLeft(s) == IF s # <<>> /\ IsSpace(Head(s)) THEN TrimLeft(Tail(s)) ELSE s
RECURSIVE TrimRight(_)
TrimRight(s) == IF s # <<>> /\ IsSpace(s[Len(s)])
                THEN TrimRight(SubSeq(s, 1, Len(s) - 1)) ELSE s
trim(s) == TrimRight(TrimLeft(s))

\* String.prototype.split(','): the pieces between the commas, in order
RECURSIVE SplitFrom(_, _, _)
SplitFrom(s, cur, acc) ==
  IF s = <<>> THEN Append(acc, cur)
  ELSE IF Head(s) = "," THEN SplitFrom(Tail(s), <<>>, Append(acc, cur))
  ELSE SplitFrom(Tail(s), Append(cur, Head(s)), acc)
split(s) == SplitFrom(s, <<>>, <<>>)

\* String.prototype.includes
includes(t, k) == \E i \in 0..(Len(t) - Len(k)) : SubSeq(t, i + 1, i + Len(k)) = k

\* Array.prototype.filter(k => k.length > 0)
RECURSIVE DropEmpties(_)
DropEmpties(ks) == IF ks = <<>> THEN <<>>
                   ELSE IF Len(Head(ks)) > 0 THEN <<Head(ks)>> \o DropEmpties(Tail(ks))
                   ELSE DropEmpties(Tail(ks))

(***************************************************************************)
(* background.ts: the keyword layer.                                       *)
(***************************************************************************)
\* variant: the pieces are lower-cased but not trimmed
parseKeywords_NoTrim(keywordsString) ==
  IF trim(keywordsString) = <<>> THEN <<>>
  ELSE LET pieces == split(keywordsString)
       IN DropEmpties([i \in 1..Len(pieces) |-> toLowerCase(pieces[i])])

parseKeywords(keywordsString) ==
  IF trim(keywordsString) = <<>> THEN <<>>
  ELSE LET pieces == split(keywordsString)
       IN DropEmpties([i \in 1..Len(pieces) |-> toLowerCase(trim(pieces[i]))])

\* the first keyword, in list order, contained in the lower-cased text; None = null
RECURSIVE FirstIncluded(_, _)
FirstIncluded(lowerText, keywords) ==
  IF keywords = <<>> THEN None
  ELSE IF includes(lowerText, Head(keywords)) THEN Some(Head(keywords))
  ELSE FirstIncluded(lowerText, Tail(keywords))

\* variant: the text is not lower-cased before the search
checkKeywordMatch_CaseSensitive(text, keywords) ==
  IF Len(keywords) = 0 THEN None
  ELSE FirstIncluded(text, keywords)

\* variant: the last keyword contained in the text is returned
checkKeywordMatch_LastMatch(text, keywords) ==
  LET hits == {i \in 1..Len(keywords) : includes(toLowerCase(text), keywords[i])}
  IN IF hits = {} THEN None
     ELSE Some(keywords[CHOOSE i \in hits : \A j \in hits : j <= i])

checkKeywordMatch(text, keywords) ==
  IF Len(keywords) = 0 THEN None
  ELSE FirstIncluded(toLowerCase(text), keywords)

(***************************************************************************)
(* background.ts: the script layer.  The OpenCC converters map character   *)
(* by character: cn->tw rewrites the Simplified form, tw->cn the           *)
(* Traditional one.                                                        *)
(***************************************************************************)
IsCJK(c) == c \in {"U56FD", "U570B"}
S2TChar(c) == IF c = "U56FD" THEN "U570B" ELSE c
T2SChar(c) == IF c = "U570B" THEN "U56FD" ELSE c
converterS2T(text) == [i \in 1..Len(text) |-> S2TChar(text[i])]
converterT2S(text) == [i \in 1..Len(text) |-> T2SChar(text[i])]

\* the two UTF-16 code units of U+1F600
IsHighSurrogate(c) == c = "UD83D"
IsLowSurrogate(c) == c = "UDE00"

\* [...text]: the string iterator yields code points, a surrogate pair as one
\* string of two code units
RECURSIVE CodePoints(_)
CodePoints(text) ==
  IF text = <<>> THEN <<>>
  ELSE IF Len(text) >= 2 /\ IsHighSurrogate(text[1]) /\ IsLowSurrogate(text[2])
       THEN <<SubSeq(text, 1, 2)>> \o CodePoints(SubSeq(text, 3, Len(text)))
       ELSE <<SubSeq(text, 1, 1)>> \o CodePoints(Tail(text))

\* [...text].filter((c, i) => c !== conv[i]).length: the i-th code point of
\* text against the i-th code unit of conv
DiffCount(text, conv) ==
  LET chars == CodePoints(text)
  IN Cardinality({i \in 1..Len(chars) : chars[i] # <<conv[i]>>})

MinChineseChars == 3

\* variant: no minimum number of Chinese characters
isSimplifiedChinese_NoMinimum(text) ==
  LET s2tDiff == DiffCount(text, converterS2T(text))
      t2sDiff == DiffCount(text, converterT2S(text))
  IN s2tDiff > t2sDiff /\ s2tDiff > 0

isSimplifiedChinese(text) ==
  LET chineseChars == {i \in 1..Len(text) : IsCJK(text[i])}
  IN IF Cardinality(chineseChars) < MinChineseChars THEN FALSE
     ELSE LET s2tDiff == DiffCount(text, converterS2T(text))
              t2sDiff == DiffCount(text, converterT2S(text))
          IN s2tDiff > t2sDiff /\ s2tDiff > 0


(***************************************************************************)
(* Settings (types.ts) as the engine reads them.  keywords = None is a     *)
(* stored object that lacks the field.                                     *)
(***************************************************************************)
ApiKeys == {"", "gsk_key"}

SettingsValues ==
  [keywordFilterEnabled : BOOLEAN,
   keywords : {None} \cup {Some(k) : k \in SeqsUpTo(KeywordChars, MaxKwLen)},
   simplifiedChineseFilterEnabled : BOOLEAN,
   aiFilterEnabled : BOOLEAN,
   groqApiKey : ApiKeys]

\* DEFAULT_SETTINGS has no simplifiedChineseFilterEnabled field: it reads as falsy
DEFAULT_SETTINGS ==
  [keywordFilterEnabled |-> TRUE,
   keywords |-> Some(<<>>),
   simplifiedChineseFilterEnabled |-> FALSE,
   aiFilterEnabled |-> TRUE,
   groqApiKey |-> ""]

\* variant: result.settings without the default; the keyword layer then reads
\* a field that is missing
getSettings_NoDefault(storedSettings) ==
  IF storedSettings = None
  THEN [DEFAULT_SETTINGS EXCEPT !.keywords = None]
  ELSE TheValue(storedSettings)

\* utils.ts getSettings: result.settings || DEFAULT_SETTINGS
getSettings(storedSettings) ==
  IF storedSettings = None THEN DEFAULT_SETTINGS ELSE TheValue(storedSettings)

Texts == SeqsUpTo(TextChars, MaxTextLen)

(***************************************************************************)
(* The reply of the classification endpoint, as analyzeWithGroq sees it.   *)
(*   status : fetch rejected / response.ok false / response.ok true        *)
(*   body   : no choices[0].message.content / content without braces /     *)
(*            braces that JSON.parse rejects / content holding a JSON      *)
(*            object                                                       *)
(*   field  : the value of shouldBlock in the parsed object                *)
(***************************************************************************)
\* true, false, no such field, the string "false", the number 1
FieldValues == {"true", "false", "missing", "str_false", "num_1"}

Replies ==
  {[status |-> "network_error", body |-> "n/a", field |-> "missing"],
   [status |-> "http_error", body |-> "n/a", field |-> "missing"]}
  \cup {[status |-> "ok", body |-> b, field |-> "missing"] :
          b \in {"no_content", "prose", "bad_json"}}
  \cup {[status |-> "ok", body |-> "json", field |-> f] : f \in FieldValues}

\* JavaScript Boolean(v)
Boolean(v) == v \in {"true", "str_false", "num_1"}

Returned(b) == [threw |-> FALSE, shouldBlock |-> b, error |-> ""]
Threw(e) == [threw |-> TRUE, shouldBlock |-> FALSE, error |-> e]

\* variant: a reply without a JSON object counts as "do not block"
analyzeWithGroq_ProseIsFalse(reply) ==
  IF reply.status = "network_error" THEN Threw("TypeError: Failed to fetch")
  ELSE IF reply.status # "ok" THEN Threw("Error: Groq API error")
  ELSE IF reply.body = "no_content" THEN Threw("Error: No content in Groq response")
  ELSE IF reply.body = "prose" THEN Returned(FALSE)
  ELSE IF reply.body = "bad_json"
       THEN Threw("Error: Failed to parse LLM response: SyntaxError")
  ELSE Returned(Boolean(reply.field))

\* background.ts analyzeWithGroq, after its one fetch has settled with `reply`
analyzeWithGroq(reply) ==
  IF reply.status = "network_error" THEN Threw("TypeError: Failed to fetch")
  ELSE IF reply.status # "ok" THEN Threw("Error: Groq API error")
  ELSE IF reply.body = "no_content" THEN Threw("Error: No content in Groq response")
  ELSE IF reply.body = "prose"
       THEN Threw("Error: Failed to parse LLM response: Error: No JSON found in response")
  ELSE IF reply.body = "bad_json"
       THEN Threw("Error: Failed to parse LLM response: SyntaxError")
  ELSE Returned(Boolean(reply.field))

(***************************************************************************)
(* Verdicts (AnalysisResponse).                                            *)
(***************************************************************************)
\* variant: the keyword verdict does not name the keyword
KeywordVerdict_NoKeyword(kw) ==
  [shouldBlock |-> TRUE, matched_by |-> "keyword", matched_keyword |-> None, error |-> None]

KeywordVerdict(kw) ==
  [shouldBlock |-> TRUE, matched_by |-> "keyword", matched_keyword |-> Some(kw), error |-> None]
ScriptVerdict ==
  [shouldBlock |-> TRUE, matched_by |-> "simplified-chinese", matched_keyword |-> None, error |-> None]
PassVerdict ==
  [shouldBlock |-> FALSE, matched_by |-> "none", matched_keyword |-> None, error |-> None]
AiVerdict(b) ==
  [shouldBlock |-> b, matched_by |-> "ai", matched_keyword |-> None, error |-> None]
\* variant: the catch block blocks
CatchVerdict_FailClosed(e) ==
  [shouldBlock |-> TRUE, matched_by |-> "none", matched_keyword |-> None, error |-> Some(e)]

\* the catch block of analyzeText
CatchVerdict(e) ==
  [shouldBlock |-> FALSE, matched_by |-> "none", matched_keyword |-> None, error |-> Some(e)]

(***************************************************************************)
(* analyzeText, from the settings snapshot to the first await of the AI    *)
(* call: the keyword layer, the script layer and the gate of the AI layer. *)
(***************************************************************************)
\* settings.keywords.trim() on a missing field throws a TypeError
KeywordLayerThrows(settings) ==
  settings.keywordFilterEnabled /\ settings.keywords = None

\* Layer 1: the matched keyword, None when the layer is off or nothing matched
KeywordLayer(text, settings) ==
  IF ~settings.keywordFilterEnabled THEN None
  ELSE LET keywords == parseKeywords(TheValue(settings.keywords))
       IN IF Len(keywords) > 0 THEN checkKeywordMatch(text, keywords) ELSE None

\* Layer 1b
ScriptLayer(text, settings) ==
  settings.simplifiedChineseFilterEnabled /\ isSimplifiedChinese(text)

\* variant: the key is not looked at
AiLayerUsable_FlagOnly(settings) ==
  settings.aiFilterEnabled

\* Layer 2 is reached only with the flag set and a non-empty key
AiLayerUsable(settings) ==
  settings.aiFilterEnabled /\ settings.groqApiKey # ""

\* variant: the script layer is evaluated before the keyword layer
LocalLayers_ScriptFirst(text, settings) ==
  IF ScriptLayer(text, settings)
  THEN [kind |-> "return", layers |-> <<"script">>, verdict |-> ScriptVerdict, error |-> ""]
  ELSE LET matchedKeyword == KeywordLayer(text, settings)
       IN IF matchedKeyword # None /\ TheValue(matchedKeyword) # <<>>
          THEN [kind |-> "return", layers |-> <<"script", "keyword">>,
                verdict |-> KeywordVerdict(TheValue(matchedKeyword)), error |-> ""]
          ELSE IF ~AiLayerUsable(settings)
          THEN [kind |-> "return", layers |-> <<"script", "keyword">>,
                verdict |-> PassVerdict, error |-> ""]
          ELSE [kind |-> "call", layers |-> <<"script", "keyword", "ai">>,
                verdict |-> PassVerdict, error |-> ""]

\* kind "call": analyzeWithGroq is called next; "return": the verdict is returned;
\* "throw": an exception is raised.  layers: the layers evaluated, in order
LocalLayers(text, settings) ==
  IF KeywordLayerThrows(settings)
  THEN [kind |-> "throw", layers |-> <<"keyword">>, verdict |-> PassVerdict,
        error |-> "TypeError: Cannot read properties of undefined (reading 'trim')"]
  ELSE LET matchedKeyword == KeywordLayer(text, settings)
       IN IF matchedKeyword # None /\ TheValue(matchedKeyword) # <<>>
          THEN [kind |-> "return", layers |-> <<"keyword">>,
                verdict |-> KeywordVerdict(TheValue(matchedKeyword)), error |-> ""]
          ELSE IF ScriptLayer(text, settings)
          THEN [kind |-> "return", layers |-> <<"keyword", "script">>,
                verdict |-> ScriptVerdict, error |-> ""]
          ELSE IF ~AiLayerUsable(settings)
          THEN [kind |-> "return", layers |-> <<"keyword", "script">>,
                verdict |-> PassVerdict, error |-> ""]
          ELSE [kind |-> "call", layers |-> <<"keyword", "script", "ai">>,
                verdict |-> PassVerdict, error |-> ""]

(***************************************************************************)
(* State of the background service worker, for one analyzeText message at  *)
(* a time (analyzeText shares no mutable state between requests).          *)
(***************************************************************************)
VARIABLES
  stored,      \* chrome.storage.local['settings']: None or Some(settings)
  bgPc,        \* "idle" | "getSettings" | "fetch" | "done"
  msgText,     \* message.text of the message being served
  snapshot,    \* the settings analyzeText read for it: None before the read
  evaluated,   \* the layers analyzeText has evaluated for it, in order
  groqCalls,   \* POSTs to the classification endpoint made for it
  groqReply,   \* None, or Some(the reply its fetch settled with)
  groqResult,  \* None, or Some(what analyzeWithGroq returned or threw)
  verdict,     \* None, or Some(the AnalysisResponse passed to sendResponse)
  responses,   \* sendResponse calls made for it
  rejected     \* the promise of analyzeText rejected (the listener's .catch ran)

bgVars == <<stored, bgPc, msgText, snapshot, evaluated, groqCalls, groqReply, groqResult,
            verdict, responses, rejected>>

StoredValues == {None} \cup {Some(s) : s \in SettingsValues}

\* variant: the settings are read before the try block is entered
InsideTry_AfterSettings(site) == site \in {"layers", "groq"}

\* the try block of analyzeText spans the settings read, the local layers
\* and the classifier call
InsideTry(site) == site \in {"getSettings", "layers", "groq"}

\* analyzeText resolves with v; the listener's .then passes it to sendResponse
Resolve(v) ==
  /\ verdict' = Some(v)
  /\ responses' = responses + 1
  /\ rejected' = rejected
  /\ bgPc' = "done"

\* an exception e is raised at `site`: caught by analyzeText (fail open), or it
\* rejects the promise and the listener's .catch answers
Raise(site, e) ==
  /\ verdict' = Some(CatchVerdict(e))
  /\ responses' = responses + 1
  /\ rejected' = ~InsideTry(site)
  /\ bgPc' = "done"

BgInit ==
  /\ stored \in StoredValues
  /\ bgPc = "idle"
  /\ msgText = <<>>
  /\ snapshot = None
  /\ evaluated = <<>>
  /\ groqCalls = 0
  /\ groqReply = None
  /\ groqResult = None
  /\ verdict = None
  /\ responses = 0
  /\ rejected = FALSE

\* chrome.runtime.onMessage listener, message.action === 'analyzeText'
OnMessage(text) ==
  /\ bgPc = "idle"
  /\ bgPc' = "getSettings"
  /\ msgText' = text
  /\ UNCHANGED <<stored, snapshot, evaluated, groqCalls, groqReply, groqResult, verdict,
                 responses, rejected>>

\* await getSettings() resolves; analyzeText runs to its return or to the fetch
GetSettingsResolved ==
  /\ bgPc = "getSettings"
  /\ LET settings == getSettings(stored)
         r == LocalLayers(msgText, settings)
     IN /\ snapshot' = Some(settings)
        /\ evaluated' = r.layers
        /\ UNCHANGED <<groqReply, groqResult>>
        /\ IF r.kind = "call"
           THEN /\ bgPc' = "fetch"
                /\ groqCalls' = groqCalls + 1
                /\ UNCHANGED <<verdict, responses, rejected>>
           ELSE /\ groqCalls' = groqCalls
                /\ IF r.kind = "throw" THEN Raise("layers", r.error)
                   ELSE Resolve(r.verdict)
  /\ UNCHANGED <<stored, msgText>>

\* await getSettings() rejects (chrome.storage.local.get fails)
GetSettingsRejected ==
  /\ bgPc = "getSettings"
  /\ Raise("getSettings", "Error: storage read failed")
  /\ UNCHANGED <<stored, msgText, snapshot, evaluated, groqCalls, groqReply, groqResult>>

\* variant: a failed fetch is repeated once
GroqSettled_Retry(reply) ==
  /\ bgPc = "fetch"
  /\ LET result == analyzeWithGroq(reply)
     IN /\ groqReply' = Some(reply)
        /\ groqResult' = Some(result)
        /\ IF result.threw /\ groqCalls < 2
           THEN /\ groqCalls' = groqCalls + 1
                /\ UNCHANGED <<bgPc, verdict, responses, rejected>>
           ELSE /\ groqCalls' = groqCalls
                /\ IF result.threw THEN Raise("groq", result.error)
                   ELSE Resolve(AiVerdict(result.shouldBlock))
  /\ UNCHANGED <<stored, msgText, snapshot, evaluated>>

\* the fetch of analyzeWithGroq settles with `reply`
GroqSettled(reply) ==
  /\ bgPc = "fetch"
  /\ LET result == analyzeWithGroq(reply)
     IN /\ groqReply' = Some(reply)
        /\ groqResult' = Some(result)
        /\ IF result.threw THEN Raise("groq", result.error)
           ELSE Resolve(AiVerdict(result.shouldBlock))
  /\ UNCHANGED <<stored, msgText, snapshot, evaluated, groqCalls>>

\* the response has been delivered; the worker is ready for the next message
RequestDone ==
  /\ bgPc = "done"
  /\ bgPc' = "idle"
  /\ msgText' = <<>>
  /\ snapshot' = None
  /\ evaluated' = <<>>
  /\ groqCalls' = 0
  /\ groqReply' = None
  /\ groqResult' = None
  /\ verdict' = None
  /\ responses' = 0
  /\ rejected' = FALSE
  /\ UNCHANGED stored

\* the settings a page holds after the user has edited one field of `cur`
EditsOf(cur) ==
  {[cur EXCEPT !.keywordFilterEnabled = ~@],
   [cur EXCEPT !.simplifiedChineseFilterEnabled = ~@],
   [cur EXCEPT !.aiFilterEnabled = ~@]}
  \cup {[cur EXCEPT !.groqApiKey = k] : k \in ApiKeys}
  \cup {[cur EXCEPT !.keywords = Some(k)] : k \in SeqsUpTo(KeywordChars, MaxKwLen)}

\* utils.ts saveSettings, called by the popup or the options page between two
\* requests, after loading the settings with getSettings and editing a field
SaveSettings(s) ==
  /\ bgPc = "idle"
  /\ stored # Some(s)
  /\ stored' = Some(s)
  /\ UNCHANGED <<bgPc, msgText, snapshot, evaluated, groqCalls, groqReply, groqResult,
                 verdict, responses, rejected>>



(***************************************************************************)
(*                         The content script                              *)
(***************************************************************************)

\* String.prototype.charCodeAt for one character
charCodeAt(c) == 31 + AsciiIndex(c)

\* the low and the high 16 bits of the two's complement form of a 32-bit h
Lo16(h) == h % 65536
Hi16(h) == ((h - Lo16(h)) \div 65536) % 65536
\* the signed 32-bit integer with these halves (ToInt32)
Int32(hi, lo) == IF hi >= 32768 THEN (hi - 65536) * 65536 + lo ELSE hi * 65536 + lo

\* hash << 5
ShiftLeft5(h) ==
  LET lo == Lo16(h) * 32
      hi == Hi16(h) * 32 + (lo \div 65536)
  IN Int32(hi % 65536, lo % 65536)

\* variant: the round computes (hash << 5) + char
HashStep_ShiftOnly(h, char) ==
  LET s == ShiftLeft5(h)
      lo == Lo16(s) + char
      hi == Hi16(s) + (lo \div 65536)
  IN Int32(hi % 65536, lo % 65536)

\* one round of the loop of hashText: hash = (hash << 5) - hash + char; hash = hash & hash
HashStep(h, char) ==
  LET s == ShiftLeft5(h)
      lo == Lo16(s) - Lo16(h) + char
      hi == Hi16(s) - Hi16(h) + ((lo - (lo % 65536)) \div 65536)
  IN Int32(hi % 65536, lo % 65536)

\* the loop of hashText from the value h on (the test of h has TLC compute
\* each round's value before the next round)
RECURSIVE HashFrom(_, _)
HashFrom(h, text) ==
  IF text = <<>> \/ h \notin Int THEN h
  ELSE HashFrom(HashStep(h, charCodeAt(Head(text))), Tail(text))

Digits36 ==
  <<"0", "1", "2", "3", "4", "5", "6", "7", "8", "9", "a", "b", "c", "d", "e", "f", "g", "h",
    "i", "j", "k", "l", "m", "n", "o", "p", "q", "r", "s", "t", "u", "v", "w", "x", "y", "z">>

\* Number.prototype.toString(36) of a non-negative integer
RECURSIVE ToString36Nat(_)
ToString36Nat(n) ==
  IF n < 36 THEN <<Digits36[n + 1]>>
  ELSE Append(ToString36Nat(n \div 36), Digits36[(n % 36) + 1])

\* Number.prototype.toString(36); -2^31 is split so that no intermediate
\* value leaves the 32-bit range
toString36(n) ==
  IF n >= 0 THEN ToString36Nat(n)
  ELSE IF n = -2147483647 - 1 THEN <<"-">> \o ToString36Nat(59652323) \o <<"k">>
  ELSE <<"-">> \o ToString36Nat(-n)

\* content.ts hashText
hashText(text) == toString36(HashFrom(0, text))

MIN_TEXT_LENGTH == 10
batchSize == 5
BATCH_DELAY_MS == 100
DEBOUNCE_MS == 500

\* what the extension writes into an element
\* a placeholder of MIN_TEXT_LENGTH characters or more
PlaceholderText_Long == <<"A", "n", "a", "l", "y", "z", "i", "n", "g", ".", ".", ".">>
\* content.ts analyzeElement: element.textContent = '...'
PlaceholderText == <<".", ".", ".">>
BlockedText == <<"B", "l", "o", "c", "k", "e", "d", " ", "c", "o", "n", "t", "e", "n", "t">>
ShowText == <<"S", "h", "o", "w">>


(***************************************************************************)
(* Pages.  A page is the input of the content script: the nodes of the     *)
(* document in document order, what the page's scripts insert later, the   *)
(* answers the background may give, and the stored settings.               *)
(*   parent  : the parent node, 0 for document.body                        *)
(*   attach  : "initial" (in the document at load), "withParent" (joins    *)
(*             the document with its parent), "later" (inserted by a page  *)
(*             script)                                                     *)
(*   text    : the node's own text nodes                                   *)
(* Every candidate of these pages is a leaf, and every subtree is inserted *)
(* once and never moved or removed.                                        *)
(***************************************************************************)
\* number of paragraphs of the page BatchPage
BatchPageItems == 12
\* number of paragraphs in each container of the page BurstPage
BurstItems == 3
\* the step of the clock, in ms
ClockStep == 100

Node(parent, attach, tag, visible, text) ==
  [parent |-> parent, attach |-> attach, tag |-> tag, visible |-> visible, text |-> text]

TextInsult == <<"Y", "o", "u", " ", "a", "r", "e", " ", "a", "n", " ", "i", "d", "i", "o", "t">>
TextInsultPadded == <<" ", " ", "Y", "o", "u", " ", "a", "r", "e", " ", "a", "n", " ", "i", "d", "i", "o", "t", " ">>
TextThanks == <<"G", "r", "e", "a", "t", " ", "p", "o", "s", "t", ",", " ", "t", "h", "a", "n", "k", "s">>
\* two texts with the same hash
TextAa == <<"A", "a", "A", "a", "A", "a", "A", "a", "A", "a">>
TextBB == <<"B", "B", "B", "B", "B", "B", "B", "B", "B", "B">>
TextShort == <<"s", "h", "o", "r", "t">>
\* "Comment no. " followed by the i-th lower-case letter
CommentText(i) == <<"C", "o", "m", "m", "e", "n", "t", " ", "n", "o", ".", " ">> \o <<Ascii[65 + i]>>

HostX == <<"x", ".", "c", "o", "m">>
HostMobileX == <<"M", "o", "b", "i", "l", "e", ".", "X", ".", "c", "o", "m">>
HostUpperX == <<"X", ".", "C", "O", "M">>
HostNotX == <<"n", "o", "t", "x", ".", "c", "o", "m">>

\* DEFAULT_SETTINGS, the fields the content script reads
DEFAULT_PAGE_SETTINGS ==
  [allowReveal |-> TRUE,
   enabledDomains |-> <<<<"t", "w", "i", "t", "t", "e", "r", ".", "c", "o", "m">>,
                        <<"x", ".", "c", "o", "m">>,
                        <<"r", "e", "d", "d", "i", "t", ".", "c", "o", "m">>,
                        <<"w", "w", "w", ".", "r", "e", "d", "d", "i", "t", ".", "c", "o", "m">>,
                        <<"i", "n", "s", "t", "a", "g", "r", "a", "m", ".", "c", "o", "m">>,
                        <<"w", "w", "w", ".", "i", "n", "s", "t", "a", "g", "r", "a", "m", ".", "c", "o", "m">>,
                        <<"f", "a", "c", "e", "b", "o", "o", "k", ".", "c", "o", "m">>,
                        <<"w", "w", "w", ".", "f", "a", "c", "e", "b", "o", "o", "k", ".", "c", "o", "m">>>>]

Outcomes == {"allow", "block", "error", "reject"}

\* a container inserted by a page script with batchSize paragraphs, into which
\* a second container with one more paragraph is inserted afterwards
FeedPage ==
  [nodes |-> <<Node(0, "later", "div", TRUE, <<>>),
               Node(1, "withParent", "p", TRUE, TextInsult),
               Node(1, "withParent", "p", TRUE, TextInsultPadded),
               Node(1, "withParent", "p", TRUE, TextAa),
               Node(1, "withParent", "p", TRUE, TextBB),
               Node(1, "withParent", "p", TRUE, TextThanks),
               Node(1, "later", "div", TRUE, <<>>),
               Node(7, "withParent", "p", TRUE, CommentText(1)),
               Node(1, "withParent", "nav", TRUE, CommentText(2)),
               Node(1, "withParent", "p", FALSE, CommentText(3)),
               Node(1, "withParent", "p", TRUE, TextShort)>>,
   outcomes |-> {"allow", "block", "error"},
   hostname |-> HostMobileX,
   stored |-> None]

\* a static page of BatchPageItems paragraphs with distinct texts
BatchPage ==
  [nodes |-> [i \in 1..BatchPageItems |-> Node(0, "initial", "p", TRUE, CommentText(i))],
   outcomes |-> {"allow"},
   hostname |-> HostX,
   stored |-> Some([allowReveal |-> TRUE, enabledDomains |-> <<HostUpperX>>])]

\* a small page: two paragraphs with the same text and a third one; a
\* paragraph and a container with a paragraph are inserted later
SmallPage(allowReveal, hostname) ==
  [nodes |-> <<Node(0, "initial", "p", TRUE, TextInsult),
               Node(0, "initial", "p", TRUE, TextInsult),
               Node(0, "initial", "p", TRUE, TextThanks),
               Node(0, "later", "p", TRUE, CommentText(1)),
               Node(0, "later", "div", TRUE, <<>>),
               Node(5, "withParent", "p", TRUE, CommentText(2))>>,
   outcomes |-> Outcomes,
   hostname |-> hostname,
   stored |-> Some([allowReveal |-> allowReveal, enabledDomains |-> <<HostX>>])]

\* two containers of BurstItems paragraphs each, inserted by page scripts
BurstPage ==
  [nodes |-> [i \in 1..(2 * (BurstItems + 1)) |->
                IF i = 1 \/ i = BurstItems + 2
                THEN Node(0, "later", "div", TRUE, <<>>)
                ELSE Node(IF i <= BurstItems + 1 THEN 1 ELSE BurstItems + 2,
                          "withParent", "p", TRUE, CommentText(i))],
   outcomes |-> {"allow"},
   hostname |-> HostX,
   stored |-> None]

\* a paragraph, and a container with a paragraph that is inserted later
TinyPage ==
  [nodes |-> <<Node(0, "initial", "p", TRUE, TextInsult),
               Node(0, "later", "div", TRUE, <<>>),
               Node(2, "withParent", "p", TRUE, TextThanks)>>,
   outcomes |-> Outcomes,
   hostname |-> HostX,
   stored |-> None]

\* two subtrees with one paragraph each, inserted by scripts of the page
PairPage ==
  [nodes |-> <<Node(0, "later", "div", TRUE, <<>>),
               Node(1, "withParent", "p", TRUE, TextInsult),
               Node(0, "later", "div", TRUE, <<>>),
               Node(3, "withParent", "p", TRUE, TextThanks)>>,
   outcomes |-> {"allow", "block"},
   hostname |-> HostX,
   stored |-> None]

Pages ==
  {FeedPage, BatchPage, BurstPage, TinyPage, PairPage}
  \cup {SmallPage(r, h) : r \in BOOLEAN, h \in {HostMobileX}}
  \cup {SmallPage(TRUE, HostNotX)}


(***************************************************************************)
(* State of the content script on one page.                                *)
(***************************************************************************)
VARIABLES
  page,                \* the page (constant)
  ctPc,                \* "loading" | "running" | "disabled": initialize()
  cachedSettings,      \* None, or Some(the settings read by initialize)
  inDoc,               \* the nodes attached to the document
  content,             \* per node: "orig" (the page's HTML), "dots" (the
                       \* analysing placeholder), "blocked" (the blocked markup)
  placeholderClass,    \* the elements carrying PLACEHOLDER_CLASS
  blockedClass,        \* the elements carrying BLOCKED_CLASS
  revealListener,      \* per node: None, or Some(the originalHTML the click
                       \* listener of its Show button restores)
  analyzedTexts,       \* the Set of text hashes
  processingElements,  \* the WeakSet of elements being processed
  processedElements,   \* the WeakSet of processed elements
  tasks,               \* the analyzeElement calls awaiting their response
  scans,               \* per scanned root (0: the document): None, or
                       \* Some(the state of its processElements call)
  pendingNodes,        \* the Set pendingNodes, in insertion order
  debounceTimer,       \* None, or Some(the ms left on the debounce timer)
  armedTimers,         \* the timeouts set by debouncedProcess that have neither
                       \* run nor been cleared
  sent,                \* history: the analyzeText messages sent, with counts
  applied,             \* history: per task, the block-or-restore changes made
  handed,              \* history: per node, the calls of analyzeElement
  sinceNotified        \* history: None, or Some(the ms since the last call of
                       \* the MutationObserver callback, at most DEBOUNCE_MS)

pageVars == <<page, ctPc, cachedSettings, inDoc, content, placeholderClass,
              blockedClass, revealListener, analyzedTexts, processingElements,
              processedElements, tasks, scans, pendingNodes, debounceTimer,
              sent, applied, handed, sinceNotified, armedTimers>>

NodeIds == 1..Len(page.nodes)
\* the document, as the root of a scan
Document == 0
\* the span and button elements of the blocked markup, as observed added nodes;
\* on these pages no scan starts at an ancestor of a blocked element after it
\* was blocked, so they are never among the descendants a scan queries
InjectedNode == -1

\* n is `root` or lies below it
RECURSIVE IsBelow(_, _)
IsBelow(n, root) ==
  IF n = 0 THEN FALSE
  ELSE page.nodes[n].parent = root \/ IsBelow(page.nodes[n].parent, root)

\* the nodes that join the document when `root` is inserted
RECURSIVE ComesWith(_, _)
ComesWith(n, root) ==
  n = root \/ (n # 0 /\ page.nodes[n].attach = "withParent"
               /\ ComesWith(page.nodes[n].parent, root))
InsertedWith(root) == {n \in NodeIds : ComesWith(n, root)}

Children(doc, n) == {c \in doc : page.nodes[c].parent = n}

\* a sequence of the elements of a set of nodes, in document order
RECURSIVE InOrder(_)
InOrder(S) ==
  IF S = {} THEN <<>>
  ELSE LET m == CHOOSE x \in S : \A y \in S : x <= y
       IN <<m>> \o InOrder(S \ {m})

RECURSIVE Concat(_)
Concat(ss) == IF ss = <<>> THEN <<>> ELSE Head(ss) \o Concat(Tail(ss))

\* the text of the blocked markup: <span>Blocked content</span> and, with
\* allowReveal, <button>Show</button>
BlockedMarkupText(reveal) == IF reveal THEN BlockedText \o ShowText ELSE BlockedText

\* cachedSettings?.allowReveal ?? true
AllowReveal(cs) == IF cs = None THEN TRUE ELSE TheValue(cs).allowReveal

\* the text of an element whose innerHTML is of the given kind
RECURSIVE KindText(_, _, _, _, _)
KindText(doc, cont, cs, n, kind) ==
  CASE kind = "dots" -> PlaceholderText
    [] kind = "blocked" -> BlockedMarkupText(AllowReveal(cs))
    [] OTHER ->
         LET kids == InOrder(Children(doc, n))
         IN page.nodes[n].text
            \o Concat([i \in 1..Len(kids) |-> KindText(doc, cont, cs, kids[i], cont[kids[i]])])

\* element.textContent
textContent(d, n) == KindText(d.inDoc, d.content, d.cachedSettings, n, d.content[n])

\* content.ts getAllTextContent
getAllTextContent(d, n) == trim(textContent(d, n))

\* content.ts getDirectTextContent: the text nodes that are children of n
getDirectTextContent(d, n) ==
  CASE d.content[n] = "dots" -> trim(PlaceholderText)
    [] d.content[n] = "blocked" -> <<>>
    [] OTHER -> trim(page.nodes[n].text)

\* element.children.length
ChildElementCount(d, n) ==
  CASE d.content[n] = "dots" -> 0
    [] d.content[n] = "blocked" -> IF AllowReveal(d.cachedSettings) THEN 2 ELSE 1
    [] OTHER -> Cardinality(Children(d.inDoc, n))

\* content.ts isVisible: rendered, and so is every ancestor
RECURSIVE isVisible(_, _)
isVisible(d, n) ==
  /\ n \in d.inDoc
  /\ page.nodes[n].visible
  /\ (page.nodes[n].parent = 0 \/ isVisible(d, page.nodes[n].parent))

SKIP_TAGS ==
  {"script", "style", "noscript", "iframe", "svg", "img", "video", "audio",
   "input", "textarea", "select", "button", "nav", "header", "footer", "aside",
   "head", "meta", "link", "title"}

\* the tag selectors of TEXT_SELECTORS (the nodes of the pages carry no
\* attributes)
MatchesTextSelectors(n) == page.nodes[n].tag \in {"p", "span", "div", "article", "section"}

\* variant: elements that were processed are not skipped
shouldSkipElement_NoProcessed(d, n) ==
  \/ page.nodes[n].tag \in SKIP_TAGS
  \/ n \in d.placeholderClass
  \/ n \in d.blockedClass
  \/ n \in d.processingElements

\* content.ts shouldSkipElement (the nodes of the pages carry no id)
shouldSkipElement(d, n) ==
  \/ page.nodes[n].tag \in SKIP_TAGS
  \/ n \in d.placeholderClass
  \/ n \in d.blockedClass
  \/ n \in d.processedElements
  \/ n \in d.processingElements

\* one element passes the filter of findTextElements
IsCandidate(d, n) ==
  /\ ~shouldSkipElement(d, n)
  /\ isVisible(d, n)
  /\ Len(getAllTextContent(d, n)) >= MIN_TEXT_LENGTH
  /\ (Len(getDirectTextContent(d, n)) >= MIN_TEXT_LENGTH \/ ChildElementCount(d, n) = 0)

\* root.querySelectorAll(TEXT_SELECTORS): the matching descendants of root,
\* in document order; an injected span or button has none
querySelectorAll(d, root) ==
  IF root = InjectedNode THEN <<>>
  ELSE InOrder({n \in d.inDoc : MatchesTextSelectors(n)
                                /\ (root = Document \/ IsBelow(n, root))})

\* content.ts findTextElements
findTextElements(d, root) ==
  SelectSeq(querySelectorAll(d, root), LAMBDA n : IsCandidate(d, n))


(***************************************************************************)
(* The synchronous code of the content script, as functions of a record d  *)
(* holding the script's state, the document and two fields for the         *)
(* MutationObserver: `mutated` (a child list of the document changed) and  *)
(* `added` (the elements the change added); `flushing` holds the roots the *)
(* running handler scans (the document, or the nodes flushed together).    *)
(***************************************************************************)
Cur ==
  [cachedSettings |-> cachedSettings, inDoc |-> inDoc, content |-> content,
   placeholderClass |-> placeholderClass, blockedClass |-> blockedClass,
   revealListener |-> revealListener, analyzedTexts |-> analyzedTexts,
   processingElements |-> processingElements,
   processedElements |-> processedElements, tasks |-> tasks, scans |-> scans,
   pendingNodes |-> pendingNodes, debounceTimer |-> debounceTimer,
   sent |-> sent, applied |-> applied, handed |-> handed,
   sinceNotified |-> sinceNotified, armedTimers |-> armedTimers,
   mutated |-> FALSE, added |-> <<>>, flushing |-> <<>>]

Apply(d) ==
  /\ cachedSettings' = d.cachedSettings
  /\ inDoc' = d.inDoc
  /\ content' = d.content
  /\ placeholderClass' = d.placeholderClass
  /\ blockedClass' = d.blockedClass
  /\ revealListener' = d.revealListener
  /\ analyzedTexts' = d.analyzedTexts
  /\ processingElements' = d.processingElements
  /\ processedElements' = d.processedElements
  /\ tasks' = d.tasks
  /\ scans' = d.scans
  /\ pendingNodes' = d.pendingNodes
  /\ debounceTimer' = d.debounceTimer
  /\ sent' = d.sent
  /\ applied' = d.applied
  /\ handed' = d.handed
  /\ sinceNotified' = d.sinceNotified
  /\ armedTimers' = d.armedTimers

Min(a, b) == IF a <= b THEN a ELSE b

\* one more copy of x in the bag b
AddCopy(b, x) ==
  IF x \in DOMAIN b THEN [b EXCEPT ![x] = @ + 1]
  ELSE [y \in DOMAIN b \cup {x} |-> IF y = x THEN 1 ELSE b[y]]

\* the copies in the bag b of the elements of S
RECURSIVE CopiesOf(_, _)
CopiesOf(b, S) ==
  IF S = {} THEN 0
  ELSE LET x == CHOOSE y \in S : TRUE IN b[x] + CopiesOf(b, S \ {x})

\* analyzedTexts.has(textHash), never (the check left out)
AnalyzedTextsHas_Never(d, textHash) == FALSE

\* content.ts analyzeElement: analyzedTexts.has(textHash)
AnalyzedTextsHas(d, textHash) == textHash \in d.analyzedTexts

\* variant: an element dropped by the hash check gets the placeholder
analyzeElement_DedupShowsPlaceholder(d, element, root) ==
  LET text == getAllTextContent(d, element)
      textHash == hashText(text)
      d1 == [d EXCEPT !.handed[element] = @ + 1]
  IN IF Len(text) < MIN_TEXT_LENGTH THEN d1
     ELSE IF AnalyzedTextsHas(d, textHash)
     THEN [d1 EXCEPT !.processedElements = @ \cup {element},
                     !.placeholderClass = @ \cup {element},
                     !.content[element] = "dots"]
     ELSE [d1 EXCEPT
             !.analyzedTexts = @ \cup {textHash},
             !.processingElements = @ \cup {element},
             !.tasks = @ \cup {[element |-> element, root |-> root,
                                originalHTML |-> d.content[element],
                                textHash |-> textHash]},
             !.placeholderClass = @ \cup {element},
             !.content[element] = "dots",
             !.revealListener[element] = None,
             !.sent = AddCopy(@, [element |-> element,
                                  text |-> textContent(d, element),
                                  textHash |-> textHash]),
             !.mutated = TRUE]

\* content.ts analyzeElement, up to its await of chrome.runtime.sendMessage;
\* `root` is the scan whose processElements made the call
analyzeElement(d, element, root) ==
  LET text == getAllTextContent(d, element)
      textHash == hashText(text)
      d1 == [d EXCEPT !.handed[element] = @ + 1]
  IN IF Len(text) < MIN_TEXT_LENGTH THEN d1
     ELSE IF AnalyzedTextsHas(d, textHash)
     THEN [d1 EXCEPT !.processedElements = @ \cup {element}]
     ELSE [d1 EXCEPT
             !.analyzedTexts = @ \cup {textHash},
             !.processingElements = @ \cup {element},
             !.tasks = @ \cup {[element |-> element, root |-> root,
                                originalHTML |-> d.content[element],
                                textHash |-> textHash]},
             !.placeholderClass = @ \cup {element},
             !.content[element] = "dots",
             !.revealListener[element] = None,
             !.sent = AddCopy(@, [element |-> element,
                                  text |-> textContent(d, element),
                                  textHash |-> textHash]),
             !.mutated = TRUE]

\* batch.map(el => analyzeElement(el)): the calls run one after the other, each
\* up to its await
RECURSIVE AnalyzeAll(_, _, _)
AnalyzeAll(d, batch, root) ==
  IF batch = <<>> THEN d
  ELSE AnalyzeAll(analyzeElement(d, Head(batch), root), Tail(batch), root)

\* elements.slice(i, i + batchSize)
Slice(elements, i) == SubSeq(elements, i + 1, Min(i + batchSize, Len(elements)))

\* Promise.all of a batch, resolved by the first response
BatchSettled_Race(d, root) == TRUE

\* Promise.all of the current batch of the scan of root has resolved: no
\* analyzeElement call of the scan awaits its response
BatchSettled(d, root) == ~\E t \in d.tasks : t.root = root

\* after Promise.all: setTimeout(resolve, 100)
AwaitDelay(d, root) ==
  IF d.scans[root] # None /\ TheValue(d.scans[root]).phase = "batch"
     /\ BatchSettled(d, root)
  THEN [d EXCEPT !.scans[root] =
          Some([TheValue(@) EXCEPT !.phase = "timer", !.timer = BATCH_DELAY_MS,
                                   !.waited = 0])]
  ELSE d

\* content.ts processElements: one turn of the loop, from the slice to the
\* awaits
DispatchBatch(d, root, elements, i, groups) ==
  LET batch == Slice(elements, i)
      d1 == AnalyzeAll(d, batch, root)
      d2 == [d1 EXCEPT !.scans[root] =
               Some([elements |-> elements, i |-> i, phase |-> "batch",
                     timer |-> 0, waited |-> 0, groups |-> Append(groups, batch),
                     batchOf |-> IF d.scans[root] # None
                                 THEN TheValue(d.scans[root]).batchOf
                                 ELSE d.flushing])]
  IN AwaitDelay(d2, root)

\* content.ts processElements
processElements(d, root, elements) == DispatchBatch(d, root, elements, 0, <<>>)

\* content.ts processNewContent (showDebugIndicator rewrites the indicator's
\* text)
processNewContent(d, root) ==
  LET elements == findTextElements(d, root)
  IN IF Len(elements) > 0
     THEN processElements([d EXCEPT !.mutated = TRUE], root, elements)
     ELSE d

\* variant: the flush scans the first pending node only
ProcessAll_FirstOnly(d, nodes) ==
  IF nodes = <<>> THEN d ELSE processNewContent(d, Head(nodes))

\* for (const node of nodes) processNewContent(node)
RECURSIVE ProcessAll(_, _)
ProcessAll(d, nodes) ==
  IF nodes = <<>> THEN d
  ELSE ProcessAll(processNewContent(d, Head(nodes)), Tail(nodes))

Range(q) == {q[i] : i \in DOMAIN q}

\* pendingNodes.add(node), for each node of a sequence
RECURSIVE AddAll(_, _)
AddAll(pending, nodes) ==
  IF nodes = <<>> THEN pending
  ELSE AddAll(IF Head(nodes) \in Range(pending) THEN pending
              ELSE Append(pending, Head(nodes)), Tail(nodes))

\* debouncedProcess that leaves a running timer alone
debouncedProcess_NoReset(d) ==
  IF d.debounceTimer # None THEN d
  ELSE [d EXCEPT !.debounceTimer = Some(DEBOUNCE_MS), !.armedTimers = @ + 1]

\* debouncedProcess without the clearTimeout
debouncedProcess_NoClear(d) ==
  [d EXCEPT !.debounceTimer = Some(DEBOUNCE_MS), !.armedTimers = @ + 1]

\* content.ts debouncedProcess: clearTimeout and setTimeout(..., 500)
debouncedProcess(d) ==
  [d EXCEPT !.debounceTimer = Some(DEBOUNCE_MS),
            !.armedTimers = (IF d.debounceTimer # None THEN @ - 1 ELSE @) + 1]

\* the MutationObserver callback of initialize; it runs after the handler that
\* changed a child list
Observed(d) ==
  IF ~d.mutated THEN d
  ELSE LET d1 == [d EXCEPT !.pendingNodes = AddAll(@, d.added),
                           !.sinceNotified = Some(0)]
       IN IF Len(d1.pendingNodes) > 0 THEN debouncedProcess(d1) ELSE d1

\* content.ts showBlockedContent
showBlockedContent(d, element, originalHTML) ==
  [d EXCEPT !.blockedClass = @ \cup {element},
            !.content[element] = "blocked",
            !.revealListener[element] =
               IF AllowReveal(d.cachedSettings) THEN Some(originalHTML) ELSE None,
            !.added = Append(@, InjectedNode)]

\* element.innerHTML = originalHTML: the blocked markup brings new span and
\* button elements, the page's HTML of a leaf brings text only
RestoreHTML(d, element, originalHTML) ==
  [d EXCEPT !.content[element] = originalHTML,
            !.revealListener[element] = None,
            !.added = IF originalHTML = "blocked" THEN Append(@, InjectedNode) ELSE @]


(***************************************************************************)
(* The handlers of the content script.                                     *)
(***************************************************************************)
\* content.ts getSettings
contentGetSettings(storedSettings) ==
  IF storedSettings = None THEN DEFAULT_PAGE_SETTINGS ELSE TheValue(storedSettings)

\* String.prototype.endsWith
endsWith(s, suffix) ==
  Len(suffix) <= Len(s) /\ SubSeq(s, Len(s) - Len(suffix) + 1, Len(s)) = suffix

\* isDomainEnabled with endsWith(normalizedDomain), without the dot
isDomainEnabled_NoDot(enabledDomains, hostname) ==
  LET currentHost == toLowerCase(hostname)
  IN \E i \in DOMAIN enabledDomains :
       endsWith(currentHost, toLowerCase(enabledDomains[i]))

\* content.ts isDomainEnabled
isDomainEnabled(enabledDomains, hostname) ==
  LET currentHost == toLowerCase(hostname)
  IN \E i \in DOMAIN enabledDomains :
       LET normalizedDomain == toLowerCase(enabledDomains[i])
       IN \/ currentHost = normalizedDomain
          \/ endsWith(currentHost, <<".">> \o normalizedDomain)

PageInit ==
  /\ page \in Pages
  /\ ctPc = "loading"
  /\ cachedSettings = None
  /\ inDoc = {n \in NodeIds : page.nodes[n].attach = "initial"}
  /\ content = [n \in NodeIds |-> "orig"]
  /\ placeholderClass = {}
  /\ blockedClass = {}
  /\ revealListener = [n \in NodeIds |-> None]
  /\ analyzedTexts = {}
  /\ processingElements = {}
  /\ processedElements = {}
  /\ tasks = {}
  /\ scans = [r \in {Document} \cup NodeIds |-> None]
  /\ pendingNodes = <<>>
  /\ debounceTimer = None
  /\ sent = <<>>
  /\ applied = <<>>
  /\ handed = [n \in NodeIds |-> 0]
  /\ sinceNotified = None
  /\ armedTimers = 0

\* content.ts initialize: the initial scan runs before the observer observes
Initialize ==
  /\ ctPc = "loading"
  /\ LET settings == contentGetSettings(page.stored)
         d == [Cur EXCEPT !.cachedSettings = Some(settings)]
     IN IF ~isDomainEnabled(settings.enabledDomains, page.hostname)
        THEN ctPc' = "disabled" /\ Apply(d)
        ELSE /\ ctPc' = "running"
             /\ Apply(processNewContent([d EXCEPT !.flushing = <<Document>>], Document))
  /\ UNCHANGED page

\* a script of the page appends the subtree of node n; the observer hears of
\* it once initialize has set it up
InsertNode(n) ==
  /\ page.nodes[n].attach = "later"
  /\ n \notin inDoc
  /\ page.nodes[n].parent = 0 \/ page.nodes[n].parent \in inDoc
  /\ LET d == [Cur EXCEPT !.inDoc = @ \cup InsertedWith(n),
                          !.mutated = TRUE, !.added = <<n>>]
     IN Apply(IF ctPc = "running" THEN Observed(d) ELSE d)
  /\ UNCHANGED <<page, ctPc>>

\* content.ts debouncedProcess: the timer's callback
Flush ==
  /\ ctPc = "running"
  /\ debounceTimer = Some(0)
  /\ LET nodes == pendingNodes
         d1 == ProcessAll([Cur EXCEPT !.pendingNodes = <<>>, !.flushing = nodes,
                                      !.armedTimers = @ - 1], nodes)
     IN Apply(Observed([d1 EXCEPT !.debounceTimer = None]))
  /\ UNCHANGED <<page, ctPc>>

\* content.ts processElements: the timer between two batches fires
BatchTimerFired(root) ==
  /\ ctPc = "running"
  /\ scans[root] # None
  /\ LET s == TheValue(scans[root])
         i == s.i + batchSize
     IN /\ s.phase = "timer"
        /\ s.timer = 0
        /\ IF i < Len(s.elements)
           THEN Apply(Observed(DispatchBatch(Cur, root, s.elements, i, s.groups)))
           ELSE Apply([Cur EXCEPT !.scans[root] = Some([s EXCEPT !.phase = "finished"])])
  /\ UNCHANGED <<page, ctPc>>

\* the block-or-restore changes analyzeElement makes for an outcome, twice
\* when the error branch falls through to the restore
Changes_ErrorFallsThrough(outcome) ==
  IF outcome = "error" THEN <<"restore", "restore">>
  ELSE IF outcome = "block" THEN <<"block">> ELSE <<"restore">>

\* variant: the catch block does not put the content back
Changes_CatchLeavesPlaceholder(outcome) ==
  IF outcome = "reject" THEN <<>>
  ELSE IF outcome = "block" THEN <<"block">> ELSE <<"restore">>

\* variant: a response with an error blocks
Changes_ErrorBlocks(outcome) ==
  IF outcome \in {"block", "error"} THEN <<"block">> ELSE <<"restore">>

\* the block-or-restore changes analyzeElement makes for an outcome of
\* sendMessage: a response with an error, one that blocks, one that allows,
\* or a rejection
Changes(outcome) == IF outcome = "block" THEN <<"block">> ELSE <<"restore">>

\* the changes made for the analysis t, each recorded in `applied` with the
\* outcome that led to it and the HTML the analysis had stored
RECURSIVE ApplyChanges(_, _, _, _)
ApplyChanges(d, t, outcome, changes) ==
  IF changes = <<>> THEN d
  ELSE LET d1 == IF Head(changes) = "block"
                 THEN showBlockedContent(d, t.element, t.originalHTML)
                 ELSE RestoreHTML(d, t.element, t.originalHTML)
           d2 == [d1 EXCEPT !.applied = AddCopy(@, [element |-> t.element,
                                                     textHash |-> t.textHash,
                                                     change |-> Head(changes),
                                                     outcome |-> outcome,
                                                     html |-> t.originalHTML])]
       IN ApplyChanges(d2, t, outcome, Tail(changes))

\* variant: a failed classification takes the hash out of analyzedTexts
Respond_FailureForgetsHash(t, outcome) ==
  /\ ctPc = "running"
  /\ t \in tasks
  /\ outcome \in page.outcomes
  /\ LET d1 == [Cur EXCEPT !.tasks = @ \ {t},
                           !.placeholderClass = @ \ {t.element},
                           !.mutated = TRUE]
         d2 == ApplyChanges(d1, t, outcome, Changes(outcome))
         d3 == [d2 EXCEPT !.processingElements = @ \ {t.element},
                          !.processedElements = @ \cup {t.element},
                          !.analyzedTexts = IF outcome \in {"error", "reject"}
                                            THEN @ \ {t.textHash} ELSE @]
     IN Apply(Observed(AwaitDelay(d3, t.root)))
  /\ UNCHANGED <<page, ctPc>>

\* content.ts analyzeElement from the await of sendMessage on, and the
\* continuation of processElements when the batch is settled
Respond(t, outcome) ==
  /\ ctPc = "running"
  /\ t \in tasks
  /\ outcome \in page.outcomes
  /\ LET d1 == [Cur EXCEPT !.tasks = @ \ {t},
                           !.placeholderClass = @ \ {t.element},
                           !.mutated = TRUE]
         d2 == ApplyChanges(d1, t, outcome, Changes(outcome))
         d3 == [d2 EXCEPT !.processingElements = @ \ {t.element},
                          !.processedElements = @ \cup {t.element}]
     IN Apply(Observed(AwaitDelay(d3, t.root)))
  /\ UNCHANGED <<page, ctPc>>

\* content.ts showBlockedContent: the click listener of the Show button
RevealClick(element) ==
  /\ ctPc = "running"
  /\ content[element] = "blocked"
  /\ revealListener[element] # None
  /\ LET d1 == [Cur EXCEPT !.blockedClass = @ \ {element}, !.mutated = TRUE]
     IN Apply(Observed(RestoreHTML(d1, element, TheValue(revealListener[element]))))
  /\ UNCHANGED <<page, ctPc>>

\* the ms left on the timers that run
RunningTimers ==
  debounceTimer
  \cup {TheValue(scans[r]).timer : r \in {x \in DOMAIN scans :
          scans[x] # None /\ TheValue(scans[x]).phase = "timer"}}

\* time passes: one step of the clock, or less when a timer is due earlier
Advance ==
  /\ ctPc = "running"
  /\ RunningTimers # {}
  /\ 0 \notin RunningTimers
  /\ LET next == CHOOSE m \in RunningTimers : \A o \in RunningTimers : m <= o
         ms == Min(ClockStep, next)
     IN /\ debounceTimer' = {m - ms : m \in debounceTimer}
        /\ sinceNotified' = {Min(m + ms, DEBOUNCE_MS) : m \in sinceNotified}
        /\ scans' = [r \in DOMAIN scans |->
             IF scans[r] # None /\ TheValue(scans[r]).phase = "timer"
             THEN Some([TheValue(scans[r]) EXCEPT !.timer = @ - ms, !.waited = @ + ms])
             ELSE scans[r]]
  /\ UNCHANGED <<page, ctPc, cachedSettings, inDoc, content, placeholderClass,
                 blockedClass, revealListener, analyzedTexts, processingElements,
                 processedElements, tasks, pendingNodes, sent, applied, handed,
                 armedTimers>>
(***************************************************************************)
(*                 The popup and the options page                          *)
(*                                                                         *)
(* Each page keeps its own copy of the settings, currentSettings, loaded   *)
(* with getSettings when the page opens; every save writes the whole copy  *)
(* with saveSettings.  The model keeps the two fields the pages below      *)
(* edit: allowReveal and enabledDomains.                                   *)
(***************************************************************************)
VARIABLES
  popupSettings,       \* None (popup closed), or Some(its currentSettings)
  currentDomain,       \* the popup's currentDomain: None (null), or Some(domain)
  optionsSettings      \* None (options page closed), or Some(its currentSettings)

uiVars == <<popupSettings, currentDomain, optionsSettings>>

\* longest enabledDomains list in storage when the pages open
MaxDomains == 2

DomainCom == <<"c", "o", "m">>
DomainMX == <<"m", ".", "x", ".", "c", "o", "m">>

\* the domains a list holds and the domains of the active tab
ListedDomains == {DomainCom, HostX, DomainMX}
TabDomains == {HostX, DomainMX}

\* the popup's currentDomain after init: null, or the domain of the tab
Tabs == {None} \cup {Some(d) : d \in TabDomains}

UiSettings ==
  [allowReveal : BOOLEAN, enabledDomains : SeqsUpTo(ListedDomains, MaxDomains)]

\* popup isDomainEnabled: domain === d || domain.endsWith(`.${d}`) for some d
isDomainEnabledPopup(enabledDomains, domain) ==
  \E i \in DOMAIN enabledDomains :
     \/ domain = enabledDomains[i]
     \/ endsWith(domain, <<".">> \o enabledDomains[i])

\* variant: disabling removes the entries equal to the domain only
toggleCurrentSite_ExactOnly(settings, domain) ==
  IF isDomainEnabledPopup(settings.enabledDomains, domain)
  THEN [settings EXCEPT !.enabledDomains = SelectSeq(@, LAMBDA d : d # domain)]
  ELSE [settings EXCEPT !.enabledDomains = Append(@, domain)]

\* popup toggleCurrentSite, the change it makes to currentSettings
toggleCurrentSite(settings, domain) ==
  IF isDomainEnabledPopup(settings.enabledDomains, domain)
  THEN [settings EXCEPT !.enabledDomains =
          SelectSeq(@, LAMBDA d : d # domain /\ ~endsWith(domain, <<".">> \o d))]
  ELSE [settings EXCEPT !.enabledDomains = Append(@, domain)]

UiIdle ==
  /\ popupSettings = None
  /\ currentDomain = None
  /\ optionsSettings = None

\* the engine's variables other than the storage
bgRest == <<bgPc, msgText, snapshot, evaluated, groqCalls, groqReply, groqResult,
            verdict, responses, rejected>>

\* popup init: the settings are loaded and the domain of the active tab is
\* taken from its URL (null when the tab has none)
PopupInit(tab) ==
  /\ popupSettings = None
  /\ popupSettings' = Some(getSettings(stored))
  /\ currentDomain' = tab
  /\ UNCHANGED <<optionsSettings, stored>>

\* the popup is closed
PopupClosed ==
  /\ popupSettings # None
  /\ popupSettings' = None
  /\ currentDomain' = None
  /\ UNCHANGED <<optionsSettings, stored>>

\* popup toggleCurrentSite and saveImmediate
ToggleCurrentSite ==
  /\ popupSettings # None
  /\ currentDomain # None
  /\ LET settings == toggleCurrentSite(TheValue(popupSettings), TheValue(currentDomain))
     IN /\ popupSettings' = Some(settings)
        /\ stored' = Some(settings)
  /\ UNCHANGED <<currentDomain, optionsSettings>>

\* popup, the change listener of the allow-reveal checkbox and saveImmediate
PopupAllowRevealChanged ==
  /\ popupSettings # None
  /\ LET settings == [TheValue(popupSettings) EXCEPT !.allowReveal = ~@]
     IN /\ popupSettings' = Some(settings)
        /\ stored' = Some(settings)
  /\ UNCHANGED <<currentDomain, optionsSettings>>

\* options page loadSettings
OptionsLoad ==
  /\ optionsSettings = None
  /\ optionsSettings' = Some(getSettings(stored))
  /\ UNCHANGED <<popupSettings, currentDomain, stored>>

\* the options page is closed
OptionsClosed ==
  /\ optionsSettings # None
  /\ optionsSettings' = None
  /\ UNCHANGED <<popupSettings, currentDomain, stored>>

\* options page autoSave(true) after the allow-reveal checkbox changed:
\* collectFormValues copies the form into currentSettings, enabledDomains is
\* not a form field, and saveSettings writes the copy
AutoSave ==
  /\ optionsSettings # None
  /\ LET settings == [TheValue(optionsSettings) EXCEPT !.allowReveal = ~@]
     IN /\ optionsSettings' = Some(settings)
        /\ stored' = Some(settings)
  /\ UNCHANGED <<popupSettings, currentDomain>>

(***************************************************************************)
(* Two specifications: the background's engine with no page, and the       *)
(* content script on a page with the background's answers as inputs.       *)
(***************************************************************************)
vars == <<bgVars, pageVars, uiVars>>

NoPage == [nodes |-> <<>>, outcomes |-> {}, hostname |-> <<>>, stored |-> None]

PageIdle ==
  /\ page = NoPage
  /\ ctPc = "disabled"
  /\ cachedSettings = None
  /\ inDoc = {}
  /\ content = <<>>
  /\ placeholderClass = {}
  /\ blockedClass = {}
  /\ revealListener = <<>>
  /\ analyzedTexts = {}
  /\ processingElements = {}
  /\ processedElements = {}
  /\ tasks = {}
  /\ scans = <<>>
  /\ pendingNodes = <<>>
  /\ debounceTimer = None
  /\ sent = <<>>
  /\ applied = <<>>
  /\ handed = <<>>
  /\ sinceNotified = None
  /\ armedTimers = 0

Init == BgInit /\ PageIdle /\ UiIdle
Next ==
  \/ (\E text \in Texts : OnMessage(text)) /\ UNCHANGED <<pageVars, uiVars>>
  \/ GetSettingsResolved /\ UNCHANGED <<pageVars, uiVars>>
  \/ GetSettingsRejected /\ UNCHANGED <<pageVars, uiVars>>
  \/ (\E reply \in Replies : GroqSettled(reply)) /\ UNCHANGED <<pageVars, uiVars>>
  \/ RequestDone /\ UNCHANGED <<pageVars, uiVars>>
  \/ (\E s \in EditsOf(getSettings(stored)) : SaveSettings(s)) /\ UNCHANGED <<pageVars, uiVars>>
Spec == Init /\ [][Next]_vars

BgIdle == BgInit /\ stored = None

InitPage == PageInit /\ BgIdle /\ UiIdle
NextPage ==
  \/ Initialize /\ UNCHANGED <<bgVars, uiVars>>
  \/ (\E n \in NodeIds : InsertNode(n)) /\ UNCHANGED <<bgVars, uiVars>>
  \/ Flush /\ UNCHANGED <<bgVars, uiVars>>
  \/ (\E root \in DOMAIN scans : BatchTimerFired(root)) /\ UNCHANGED <<bgVars, uiVars>>
  \/ (\E t \in tasks : \E outcome \in Outcomes : Respond(t, outcome)) /\ UNCHANGED <<bgVars, uiVars>>
  \/ (\E element \in NodeIds : RevealClick(element)) /\ UNCHANGED <<bgVars, uiVars>>
  \/ Advance /\ UNCHANGED <<bgVars, uiVars>>
SpecPage == InitPage /\ [][NextPage]_vars

(***************************************************************************)
(* A third specification: the background's engine with settings that       *)
(* always hold a keyword string and an API key, over alphabets with the    *)
(* space, a Simplified and a Traditional character; the classifier         *)
(* answers true or false.                                                  *)
(***************************************************************************)
\* longest keyword string of SpecLayers
MaxLayerKwLen == 3
\* longest text of SpecLayers
MaxLayerTextLen == 3

LayerKeywordChars == {"A", ",", " ", "U56FD"}
LayerTextChars == {"A", "U56FD", "U570B"}

LayerSettings ==
  [keywordFilterEnabled : BOOLEAN,
   keywords : {Some(k) : k \in SeqsUpTo(LayerKeywordChars, MaxLayerKwLen)},
   simplifiedChineseFilterEnabled : BOOLEAN,
   aiFilterEnabled : BOOLEAN,
   groqApiKey : {"gsk_key"}]

\* texts of three Chinese characters that follow an emoji
EmojiTexts ==
  {<<"UD83D", "UDE00">> \o t : t \in {u \in SeqsUpTo({"U56FD", "U570B"}, 3) : Len(u) = 3}}

LayerTexts == SeqsUpTo(LayerTextChars, MaxLayerTextLen) \cup EmojiTexts

LayerReplies == {[status |-> "ok", body |-> "json", field |-> f] : f \in {"true", "false"}}

InitLayers ==
  /\ stored \in {Some(s) : s \in LayerSettings}
  /\ bgPc = "idle"
  /\ msgText = <<>>
  /\ snapshot = None
  /\ evaluated = <<>>
  /\ groqCalls = 0
  /\ groqReply = None
  /\ groqResult = None
  /\ verdict = None
  /\ responses = 0
  /\ rejected = FALSE
  /\ PageIdle
  /\ UiIdle

NextLayers ==
  \/ (\E text \in LayerTexts : OnMessage(text)) /\ UNCHANGED <<pageVars, uiVars>>
  \/ GetSettingsResolved /\ UNCHANGED <<pageVars, uiVars>>
  \/ (\E reply \in LayerReplies : GroqSettled(reply)) /\ UNCHANGED <<pageVars, uiVars>>
  \/ RequestDone /\ UNCHANGED <<pageVars, uiVars>>

SpecLayers == InitLayers /\ [][NextLayers]_vars

(***************************************************************************)
(* The content script when every classification request is answered: the   *)
(* response arrives or sendMessage rejects.                                *)
(***************************************************************************)
SettlingPages == {TinyPage}

InitSettling == InitPage /\ page \in SettlingPages

RequestSettles == \E t \in tasks : \E outcome \in Outcomes : Respond(t, outcome)

SpecPageSettling ==
  InitSettling /\ [][NextPage]_vars /\ WF_vars(RequestSettles /\ UNCHANGED <<bgVars, uiVars>>)

(***************************************************************************)
(* The content script when its timers fire: time passes while a timer is   *)
(* running, and the callback of a debounce timer that is due runs.         *)
(***************************************************************************)
TimerPages == {TinyPage, PairPage}

InitTimers == InitPage /\ page \in TimerPages

\* the enabling condition of Flush
FlushDue == ctPc = "running" /\ debounceTimer = Some(0)

\* weak fairness of the clock and of the two timer callbacks, that of Flush
\* with ENABLED Flush written out as FlushDue
SpecPageTimers ==
  /\ InitTimers /\ [][NextPage]_vars
  /\ WF_vars(Advance /\ UNCHANGED <<bgVars, uiVars>>)
  /\ ([]<>~FlushDue \/ []<><<Flush /\ UNCHANGED <<bgVars, uiVars>>>>_vars)
  /\ WF_vars((\E root \in DOMAIN scans : BatchTimerFired(root)) /\ UNCHANGED <<bgVars, uiVars>>)

(***************************************************************************)
(* The popup and the options page, opened, used and closed in any order,   *)
(* over settings that have been saved before.                              *)
(***************************************************************************)
InitSettingsPages ==
  /\ stored \in {Some(s) : s \in UiSettings}
  /\ bgPc = "idle"
  /\ msgText = <<>>
  /\ snapshot = None
  /\ evaluated = <<>>
  /\ groqCalls = 0
  /\ groqReply = None
  /\ groqResult = None
  /\ verdict = None
  /\ responses = 0
  /\ rejected = FALSE
  /\ PageIdle
  /\ UiIdle

NextSettingsPages ==
  \/ (\E tab \in Tabs : PopupInit(tab)) /\ UNCHANGED <<bgRest, pageVars>>
  \/ PopupClosed /\ UNCHANGED <<bgRest, pageVars>>
  \/ ToggleCurrentSite /\ UNCHANGED <<bgRest, pageVars>>
  \/ PopupAllowRevealChanged /\ UNCHANGED <<bgRest, pageVars>>
  \/ OptionsLoad /\ UNCHANGED <<bgRest, pageVars>>
  \/ OptionsClosed /\ UNCHANGED <<bgRest, pageVars>>
  \/ AutoSave /\ UNCHANGED <<bgRest, pageVars>>

SpecSettingsPages == InitSettingsPages /\ [][NextSettingsPages]_vars

(***************************************************************************)
(* Properties of the classification engine (specification Spec).           *)
(***************************************************************************)
TheVerdict == TheValue(verdict)
TheSnapshot == TheValue(snapshot)

\* the keywords a settings snapshot configures, as a set
ConfiguredKeywords(settings) ==
  IF settings.keywords = None THEN {}
  ELSE LET ks == parseKeywords(TheValue(settings.keywords))
       IN {ks[i] : i \in 1..Len(ks)}

\* k occurs in text as a case-insensitive substring
ContainsIgnoringCase(text, k) == includes(toLowerCase(text), toLowerCase(k))

\* the reply is one of the classifier's failures: non-success status, network
\* exception, empty content, unparseable reply
IsFailedReply(reply) ==
  \/ reply.status # "ok"
  \/ reply.body \in {"no_content", "prose", "bad_json"}

IsFailOpenVerdict(v) ==
  /\ v.shouldBlock = FALSE
  /\ v.matched_by = "none"
  /\ v.error # None
  /\ TheValue(v.error) # ""

\* C1: a verdict has shouldBlock = TRUE only when the keyword layer is enabled
\* and a configured keyword matched, or the script layer is enabled and the
\* detector returned TRUE, or the classifier call returned TRUE without
\* throwing; every verdict produced on an exception path (settings read failed,
\* internal fault, classifier failure) has shouldBlock = FALSE.
C1_FailOpen ==
  verdict # None =>
    /\ TheVerdict.shouldBlock =>
         /\ snapshot # None
         /\ \/ /\ TheVerdict.matched_by = "keyword"
               /\ TheSnapshot.keywordFilterEnabled
               /\ TheVerdict.matched_keyword # None
               /\ TheValue(TheVerdict.matched_keyword) \in ConfiguredKeywords(TheSnapshot)
               /\ ContainsIgnoringCase(msgText, TheValue(TheVerdict.matched_keyword))
            \/ /\ TheVerdict.matched_by = "simplified-chinese"
               /\ TheSnapshot.simplifiedChineseFilterEnabled
               /\ isSimplifiedChinese(msgText)
            \/ /\ TheVerdict.matched_by = "ai"
               /\ groqResult # None
               /\ ~TheValue(groqResult).threw
               /\ TheValue(groqResult).shouldBlock
    /\ TheVerdict.error # None => ~TheVerdict.shouldBlock
    /\ snapshot = None => ~TheVerdict.shouldBlock
    /\ (snapshot # None /\ KeywordLayerThrows(TheSnapshot)) => ~TheVerdict.shouldBlock
    /\ (groqResult # None /\ TheValue(groqResult).threw) => ~TheVerdict.shouldBlock

\* a classifier call that returned TRUE produced a block verdict
C1_Witness ==
  /\ verdict # None
  /\ TheVerdict.shouldBlock
  /\ TheVerdict.matched_by = "ai"
  /\ groqResult # None
  /\ ~TheValue(groqResult).threw

\* C2: with the keyword layer enabled, when the text contains a configured
\* keyword as a case-insensitive substring, the verdict is shouldBlock = TRUE,
\* matched_by = keyword, matched_keyword = the first such keyword in list
\* order, and the classifier is called zero times, whatever the AI flag and
\* the API key are.
C2_KeywordShortCircuit ==
  (/\ snapshot # None
   /\ TheSnapshot.keywordFilterEnabled
   /\ \E k \in ConfiguredKeywords(TheSnapshot) : ContainsIgnoringCase(msgText, k))
  => /\ groqCalls = 0
     /\ groqReply = None
     /\ bgPc = "done"
     /\ verdict # None
     /\ TheVerdict.shouldBlock
     /\ TheVerdict.matched_by = "keyword"
     /\ TheVerdict.error = None
     /\ TheVerdict.matched_keyword # None
     /\ LET ks == parseKeywords(TheValue(TheSnapshot.keywords))
            hit == {i \in 1..Len(ks) : ContainsIgnoringCase(msgText, ks[i])}
            first == CHOOSE i \in hit : \A j \in hit : i <= j
        IN TheVerdict.matched_keyword = Some(ks[first])

\* an upper-case text matched a keyword while the AI layer was usable
C2_Witness ==
  /\ bgPc = "done"
  /\ snapshot # None
  /\ TheSnapshot.keywordFilterEnabled
  /\ TheSnapshot.aiFilterEnabled
  /\ TheSnapshot.groqApiKey # ""
  /\ msgText = <<"B">>
  /\ verdict # None
  /\ TheVerdict.matched_keyword = Some(<<"b">>)

\* C3: when the settings snapshot read for a request has aiFilterEnabled
\* FALSE or an empty API key, no request to the classification endpoint is
\* made for that request.
C3_NoRequestWithoutUsableAi ==
  (/\ snapshot # None
   /\ (~TheSnapshot.aiFilterEnabled \/ TheSnapshot.groqApiKey = ""))
  => /\ groqCalls = 0
     /\ groqReply = None
     /\ bgPc # "fetch"

\* a request passed both local layers with the AI flag set and no key
C3_Witness ==
  /\ bgPc = "done"
  /\ snapshot # None
  /\ TheSnapshot.aiFilterEnabled
  /\ TheSnapshot.groqApiKey = ""
  /\ evaluated = <<"keyword", "script">>
  /\ verdict = Some(PassVerdict)

\* C4: when the classifier was reached and failed (non-success HTTP status,
\* empty content, unparseable reply, network exception), the verdict is
\* shouldBlock = FALSE, matched_by = none, with a non-empty error string.
C4_ClassifierFailureAllows ==
  (groqReply # None /\ IsFailedReply(TheValue(groqReply)))
  => /\ verdict # None
     /\ IsFailOpenVerdict(TheVerdict)

\* the classifier replied with content that holds no JSON object
C4_Witness ==
  /\ groqReply # None
  /\ TheValue(groqReply).status = "ok"
  /\ TheValue(groqReply).body = "prose"
  /\ verdict # None
  /\ TheVerdict.error # None

\* C5: analyzeText never rejects; when the settings read fails or the stored
\* settings lack keywords while the keyword layer is enabled, the call ends
\* with an allow / none / error verdict; exactly one response is sent per
\* analyzeText message.
C5_NeverThrows ==
  /\ ~rejected
  /\ responses = (IF bgPc = "done" THEN 1 ELSE 0)
  /\ (verdict # None) = (bgPc = "done")
  /\ (bgPc = "done" /\ snapshot = None) => IsFailOpenVerdict(TheVerdict)
  /\ (bgPc \in {"fetch", "done"} /\ snapshot # None /\ KeywordLayerThrows(TheSnapshot))
     => (bgPc = "done" /\ IsFailOpenVerdict(TheVerdict))

\* a request served from stored settings that lack the keywords field
C5_Witness ==
  /\ bgPc = "done"
  /\ snapshot # None
  /\ TheSnapshot.keywordFilterEnabled
  /\ TheSnapshot.keywords = None
  /\ responses = 1


(***************************************************************************)
(* Properties of the content script (SpecPage).                            *)
(***************************************************************************)
\* the analyzeText messages sent for the element el
SentFor(b, el) == CopiesOf(b, {m \in DOMAIN b : m.element = el})
\* the analyzeText messages sent with the hash h
SentWithHash(b, h) == CopiesOf(b, {m \in DOMAIN b : m.textHash = h})
\* the block-or-restore changes made for the fragment of the message m
AppliedFor(m) ==
  CopiesOf(applied, {a \in DOMAIN applied :
                       a.element = m.element /\ a.textHash = m.textHash})
InFlight(m) == \E t \in tasks : t.element = m.element /\ t.textHash = m.textHash
TheScan(r) == TheValue(scans[r])
\* the text analyzeElement reads from the element n as the page made it
PageText(n) == trim(page.nodes[n].text)

\* C6: during one page lifetime at most one analyzeText message is sent per
\* content hash, whatever the scans and the order of the responses; every
\* hash sent is in analyzedTexts; and of two distinct elements with the same
\* text at most one is sent for classification.
C6_OneRequestPerHash ==
  /\ \A m \in DOMAIN sent :
       /\ SentWithHash(sent, m.textHash) = 1
       /\ m.textHash \in analyzedTexts
  /\ \A n1, n2 \in NodeIds :
       (n1 < n2 /\ PageText(n1) = PageText(n2))
         => SentWithHash(sent, hashText(PageText(n1))) <= 1

\* C6, its case: two distinct elements with the same text have both been
\* handed to analyzeElement; one message was sent, and the element that was
\* not sent is marked processed.
C6_Witness ==
  \E n1, n2 \in NodeIds :
    /\ n1 # n2
    /\ PageText(n1) = PageText(n2)
    /\ handed[n1] > 0 /\ handed[n2] > 0
    /\ SentFor(sent, n1) = 1
    /\ SentFor(sent, n2) = 0
    /\ n2 \in processedElements
    /\ SentWithHash(sent, hashText(PageText(n1))) = 1

\* C7: while an element's classification is in flight, handing the element to
\* analyzeElement again sends no message for it; and at every moment each
\* element being processed has exactly one analysis awaiting its response, so
\* no two analyses claim the same fragment.
C7_IdempotentEnqueue ==
  /\ [](\A el \in NodeIds :
          Cardinality({t \in tasks : t.element = el})
            = IF el \in processingElements THEN 1 ELSE 0)
  /\ [][\A el \in processingElements : SentFor(sent', el) = SentFor(sent, el)]_vars

\* C7, its case: an element in flight has been handed to analyzeElement by
\* two overlapping scans, and one message has been sent for it.
C7_Witness ==
  \E el \in processingElements :
    /\ handed[el] = 2
    /\ SentFor(sent, el) = 1
    /\ Cardinality({r \in DOMAIN scans :
         scans[r] # None /\ \E k \in DOMAIN TheScan(r).groups :
                              \E j \in DOMAIN TheScan(r).groups[k] :
                                TheScan(r).groups[k][j] = el}) = 2

\* C8: for every fragment sent for classification the block-or-restore
\* change is made exactly once: no change while the response is awaited,
\* exactly one change once it has arrived, and no change for a fragment that
\* was not sent.
C8_SinkOnce ==
  /\ \A m \in DOMAIN sent : AppliedFor(m) = IF InFlight(m) THEN 0 ELSE 1
  /\ \A a \in DOMAIN applied :
       \E m \in DOMAIN sent : m.element = a.element /\ m.textHash = a.textHash

\* C8, its case: one fragment has been blocked and another restored, each by
\* one change, while a third still awaits its response with no change.
C8_Witness ==
  /\ \E a \in DOMAIN applied : a.change = "block" /\ applied[a] = 1
  /\ \E a \in DOMAIN applied : a.change = "restore" /\ applied[a] = 1
  /\ \E m \in DOMAIN sent : InFlight(m) /\ AppliedFor(m) = 0

\* C9: an element that is done (in processedElements) never returns to
\* processing and no further message is sent for it.
C9_LifecycleMonotone ==
  [][\A el \in processedElements :
       /\ el \notin processingElements'
       /\ SentFor(sent', el) = SentFor(sent, el)]_vars

\* C10: the elements found by one scan are dispatched in list order in groups
\* of 5, the last group holding the rest, ceil(n/5) groups in all; a further
\* group is dispatched only when no analysis of the scan awaits its response
\* and 100 ms have passed since the last of them settled.
C10_Batching ==
  /\ [](\A r \in DOMAIN scans : scans[r] # None =>
          LET elements == TheScan(r).elements
              groups == TheScan(r).groups
              n == Len(elements)
          IN /\ Len(groups) >= 1
             /\ Len(groups) <= (n + 4) \div 5
             /\ TheScan(r).phase = "finished" => Len(groups) = (n + 4) \div 5
             /\ \A k \in DOMAIN groups :
                  groups[k] = SubSeq(elements, 5 * (k - 1) + 1,
                                     IF 5 * k <= n THEN 5 * k ELSE n))
  /\ [][\A r \in DOMAIN scans :
          (scans[r] # None /\ Len(TheScan(r).groups') > Len(TheScan(r).groups))
            => /\ ~\E t \in tasks : t.root = r
               /\ TheScan(r).phase = "timer"
               /\ TheScan(r).waited >= 100]_vars

\* C10, its case: a scan that found 12 elements has finished after groups of
\* 5, 5 and 2.
C10_Witness ==
  \E r \in DOMAIN scans :
    /\ scans[r] # None
    /\ TheScan(r).phase = "finished"
    /\ Len(TheScan(r).elements) = 12
    /\ [k \in DOMAIN TheScan(r).groups |-> Len(TheScan(r).groups[k])] = <<5, 5, 2>>

\* the scans started together with the scan of root r: by the initial scan,
\* or by one flush of the pending nodes
SameBatch(r) == {q \in DOMAIN scans : scans[q] # None /\ TheScan(q).batchOf = TheScan(r).batchOf}

\* C11: of the analyses started by one batch scan (the initial scan, or one
\* flush of the pending nodes with all the subtrees it covers) at most 5
\* await their response at the same time.
C11_ConcurrencyBound ==
  \A r \in DOMAIN scans : scans[r] # None =>
    Cardinality({t \in tasks : t.root \in SameBatch(r)}) <= 5

\* the step is a flush of the pending nodes
IsFlushStep == pendingNodes # <<>> /\ pendingNodes' = <<>>
\* the step starts the scan of root r
StartsScan(r) == scans[r] = None /\ scans'[r] # None
IsPrefix(p, q) == Len(p) <= Len(q) /\ SubSeq(q, 1, Len(p)) = p

\* C12: change notifications less than 500 ms apart are coalesced.  While
\* nodes are pending a flush is scheduled 500 ms after the last notification;
\* no scan starts between the notifications (a scan starts only in the
\* initial scan or in a flush, and a flush runs only when 500 ms have passed
\* since the last notification); the flush scans roots taken from all the
\* nodes recorded since the previous flush, none of which was dropped
\* meanwhile, as one batch; and the pending set is empty afterwards.
C12_Coalescing ==
  /\ [](pendingNodes # <<>> =>
          /\ debounceTimer # None
          /\ sinceNotified # None
          /\ TheValue(debounceTimer) + TheValue(sinceNotified) = 500)
  /\ [][IsFlushStep =>
          /\ sinceNotified = Some(500)
          /\ \A r \in DOMAIN scans : StartsScan(r) =>
               /\ r \in Range(pendingNodes)
               /\ TheValue(scans'[r]).batchOf = pendingNodes]_vars
  /\ [][\A r \in DOMAIN scans : StartsScan(r) => (ctPc = "loading" \/ IsFlushStep)]_vars
  /\ [][IsFlushStep \/ IsPrefix(pendingNodes, pendingNodes')]_vars

\* C12, its case: two inserted subtrees were recorded by separate
\* notifications and one flush has started the scans of both; nothing is
\* pending afterwards.
C12_Witness ==
  /\ pendingNodes = <<>>
  /\ debounceTimer = None
  /\ \E r1, r2 \in DOMAIN scans :
       /\ r1 # r2
       /\ scans[r1] # None /\ scans[r2] # None
       /\ TheScan(r1).batchOf = <<r1, r2>>
       /\ TheScan(r2).batchOf = <<r1, r2>>

\* the host, case ignored, is the entry or a name below it
HostUnder(host, entry) ==
  LET h == toLowerCase(host)
      e == toLowerCase(entry)
  IN \/ h = e
     \/ /\ Len(h) > Len(e)
        /\ h[Len(h) - Len(e)] = "."
        /\ \A i \in 1..Len(e) : h[Len(h) - Len(e) + i] = e[i]

\* C13: once initialize has run, the content script is running exactly when
\* the page's hostname, case ignored, equals an entry of enabledDomains or
\* ends with '.' and an entry; the decision is made once and never changes;
\* and on a page where it failed nothing is scanned, observed or sent,
\* whatever the page inserts later.
C13_DomainGate ==
  /\ [](ctPc # "loading" =>
          /\ cachedSettings # None
          /\ ctPc = "running" <=>
               \E i \in DOMAIN TheValue(cachedSettings).enabledDomains :
                 HostUnder(page.hostname, TheValue(cachedSettings).enabledDomains[i]))
  /\ [](ctPc = "disabled" =>
          /\ sent = <<>> /\ tasks = {} /\ applied = <<>>
          /\ \A r \in DOMAIN scans : scans[r] = None
          /\ \A n \in NodeIds : handed[n] = 0 /\ content[n] = "orig"
          /\ pendingNodes = <<>> /\ debounceTimer = None /\ sinceNotified = None
          /\ analyzedTexts = {} /\ processingElements = {} /\ processedElements = {})
  /\ [][ctPc # "loading" => ctPc' = ctPc]_vars

\* C13, its case: on a page whose hostname ends with an entry but not with
\* '.' and the entry, the script is disabled, and candidate text was in the
\* document at load and more has been inserted since.
C13_Witness ==
  /\ ctPc = "disabled"
  /\ \E i \in DOMAIN TheValue(cachedSettings).enabledDomains :
       endsWith(toLowerCase(page.hostname),
                toLowerCase(TheValue(cachedSettings).enabledDomains[i]))
  /\ \E n \in inDoc : page.nodes[n].attach = "initial" /\ Len(PageText(n)) >= MIN_TEXT_LENGTH
  /\ \E n \in inDoc : page.nodes[n].attach = "withParent" /\ Len(PageText(n)) >= MIN_TEXT_LENGTH

(***************************************************************************)
(* Properties of the layers (SpecLayers, Spec).                            *)
(***************************************************************************)
\* the string holds nothing but spaces and commas
OnlySpacesAndCommas(k) == \A i \in 1..Len(k) : k[i] \in {" ", ","}

\* C14: when the keyword string of the settings snapshot is empty or holds
\* only whitespace and commas, no keyword is configured and the keyword layer
\* matches no text and produces no block verdict, with keywordFilterEnabled
\* true or false.
C14_EmptyKeywordsNeverBlock ==
  (/\ snapshot # None
   /\ TheSnapshot.keywords # None
   /\ OnlySpacesAndCommas(TheValue(TheSnapshot.keywords)))
  => /\ parseKeywords(TheValue(TheSnapshot.keywords)) = <<>>
     /\ KeywordLayer(msgText, TheSnapshot) = None
     /\ Head(evaluated) = "keyword"
     /\ verdict # None =>
          /\ TheVerdict.matched_by # "keyword"
          /\ TheVerdict.matched_keyword = None

\* C14, its case: the enabled keyword layer has been evaluated for a
\* non-empty text with the keyword string " , ", and a verdict was produced.
C14_Witness ==
  /\ snapshot # None
  /\ TheSnapshot.keywordFilterEnabled
  /\ TheSnapshot.keywords = Some(<<" ", ",", " ">>)
  /\ msgText # <<>>
  /\ verdict # None
  /\ Head(evaluated) = "keyword"

AllLayersDisabled(settings) ==
  /\ ~settings.keywordFilterEnabled
  /\ ~settings.simplifiedChineseFilterEnabled
  /\ ~settings.aiFilterEnabled

\* C15: for every text, when the snapshot has all three layers disabled, or
\* when nothing is stored and the defaults apply (keyword and AI layer
\* enabled, empty keyword string, empty API key, script layer off), the
\* verdict is shouldBlock = FALSE, matched_by = none, without an error, and no
\* request is made to the classifier.
C15_NoUsableLayerAllows ==
  (snapshot # None /\ (AllLayersDisabled(TheSnapshot) \/ stored = None))
  => /\ stored = None =>
          /\ TheSnapshot.keywordFilterEnabled /\ TheSnapshot.keywords = Some(<<>>)
          /\ TheSnapshot.aiFilterEnabled /\ TheSnapshot.groqApiKey = ""
          /\ ~TheSnapshot.simplifiedChineseFilterEnabled
     /\ bgPc = "done"
     /\ verdict = Some([shouldBlock |-> FALSE, matched_by |-> "none",
                        matched_keyword |-> None, error |-> None])
     /\ responses = 1 /\ ~rejected
     /\ groqCalls = 0 /\ groqReply = None

\* C15, its case: nothing is stored, and a text of Simplified characters has
\* been answered.
C15_Witness ==
  /\ stored = None
  /\ snapshot # None
  /\ verdict # None
  /\ msgText = <<"U56FD", "U56FD", "U56FD">>

\* the enabled keyword layer would match the text of the request
KeywordWouldMatch ==
  /\ TheSnapshot.keywordFilterEnabled
  /\ \E k \in ConfiguredKeywords(TheSnapshot) : ContainsIgnoringCase(msgText, k)
\* the enabled script layer would match the text of the request
ScriptWouldMatch ==
  /\ TheSnapshot.simplifiedChineseFilterEnabled
  /\ isSimplifiedChinese(msgText)

\* C16: the layers are evaluated in the order keyword, script, AI.  When the
\* keyword layer matches, also when the script layer would match too, the
\* verdict is a keyword block and no later layer is evaluated; when only the
\* script layer matches, the verdict is a script block (matched_by
\* 'simplified-chinese') and the classifier is not called; the classifier is
\* called only after both local layers were evaluated and neither matched.
C16_LayerOrder ==
  snapshot # None =>
    /\ evaluated \in {<<"keyword">>, <<"keyword", "script">>, <<"keyword", "script", "ai">>}
    /\ KeywordWouldMatch =>
         /\ evaluated = <<"keyword">>
         /\ verdict # None /\ TheVerdict.shouldBlock /\ TheVerdict.matched_by = "keyword"
         /\ groqCalls = 0
    /\ (~KeywordWouldMatch /\ ScriptWouldMatch) =>
         /\ evaluated = <<"keyword", "script">>
         /\ verdict # None /\ TheVerdict.shouldBlock
         /\ TheVerdict.matched_by = "simplified-chinese"
         /\ groqCalls = 0 /\ groqReply = None
    /\ groqCalls > 0 =>
         /\ evaluated = <<"keyword", "script", "ai">>
         /\ ~KeywordWouldMatch /\ ~ScriptWouldMatch
    /\ (verdict # None /\ TheVerdict.matched_by = "ai") => groqCalls = 1

\* C16, its case: a text of Simplified characters holds a configured
\* keyword, both local layers are enabled and the classifier is usable; the
\* verdict names the keyword layer.
C16_Witness ==
  /\ snapshot # None
  /\ KeywordWouldMatch /\ ScriptWouldMatch /\ AiLayerUsable(TheSnapshot)
  /\ verdict # None
  /\ TheVerdict.matched_by = "keyword"



\* the records of `applied` that the step adds
NewlyApplied ==
  {a \in DOMAIN applied' : a \notin DOMAIN applied \/ applied'[a] > applied[a]}

ChineseCharCount(text) == Cardinality({i \in 1..Len(text) : IsCJK(text[i])})

\* C18: for the text of a request with fewer than 3 characters in the CJK
\* range, isSimplifiedChinese is false, and the verdict of the request is
\* never a block by the script layer.
C18_FewChineseCharsPass ==
  ChineseCharCount(msgText) < 3 =>
     /\ ~isSimplifiedChinese(msgText)
     /\ verdict # None => TheVerdict.matched_by # "simplified-chinese"

\* C18, its case: the script layer is enabled and was evaluated on a text of
\* two Simplified characters, and the request was not blocked by it
C18_Witness ==
  /\ snapshot # None /\ verdict # None
  /\ TheSnapshot.simplifiedChineseFilterEnabled
  /\ msgText = <<"U56FD", "U56FD">>
  /\ evaluated = <<"keyword", "script">>
  /\ TheVerdict = PassVerdict


\* the pieces joined by commas
RECURSIVE JoinCommas(_)
JoinCommas(pieces) ==
  IF Len(pieces) = 1 THEN Head(pieces)
  ELSE Head(pieces) \o <<",">> \o JoinCommas(Tail(pieces))

IsNonEmpty(k) == Len(k) > 0

\* C19: the keywords are the pieces of the comma-separated string, trimmed,
\* lower-cased, the empty ones dropped, in order; the matcher returns the first
\* keyword in list order that is a substring of the lower-cased text and null
\* when none is, and the keyword layer's verdict names that keyword.
C19_KeywordMatcher ==
  (snapshot # None /\ TheSnapshot.keywords # None) =>
    LET keywordsString == TheValue(TheSnapshot.keywords)
        pieces == split(keywordsString)
        keywords == parseKeywords(keywordsString)
        lowerText == toLowerCase(msgText)
        hits == {i \in 1..Len(keywords) : includes(lowerText, keywords[i])}
        first == CHOOSE i \in hits : \A j \in hits : i <= j
        result == checkKeywordMatch(msgText, keywords)
    IN /\ JoinCommas(pieces) = keywordsString
       /\ \A i \in 1..Len(pieces) : \A j \in 1..Len(pieces[i]) : pieces[i][j] # ","
       /\ keywords = SelectSeq([i \in 1..Len(pieces) |-> toLowerCase(trim(pieces[i]))],
                               IsNonEmpty)
       /\ hits = {} <=> result = None
       /\ hits # {} => result = Some(keywords[first])
       /\ (TheSnapshot.keywordFilterEnabled /\ verdict # None) =>
            /\ TheVerdict.matched_by = "keyword" <=> hits # {}
            /\ hits # {} => TheVerdict.matched_keyword = Some(keywords[first])

\* C19, its case: two keywords are both substrings of the text, the one that
\* is first in the list occurs later in the text, and the verdict names it
C19_Witness ==
  /\ snapshot # None /\ verdict # None
  /\ TheSnapshot.keywordFilterEnabled
  /\ TheSnapshot.keywords = Some(<<"U56FD", ",", "A">>)
  /\ msgText = <<"A", "U56FD">>
  /\ TheVerdict.matched_keyword = Some(<<"U56FD">>)


\* the elements in the blocked state whose analysis is over
BlockedElements == (blockedClass \cap inDoc) \ processingElements

\* C20: an element in the blocked state has a Show button that reacts to a
\* click exactly when allowReveal is true in the settings read at
\* initialisation (true when none are cached), and a click on Show puts back
\* the page's HTML of the element and takes the blocked state away.
C20_Reveal ==
  [][/\ \A n \in BlockedElements :
          revealListener[n] # None <=> AllowReveal(cachedSettings)
     /\ \A n \in blockedClass \ blockedClass' :
          content'[n] = "orig"]_vars

\* the nodes whose innerHTML or classes the step changes
Touched ==
  {n \in NodeIds : \/ content'[n] # content[n]
                   \/ (n \in placeholderClass') # (n \in placeholderClass)
                   \/ (n \in blockedClass') # (n \in blockedClass)}

\* C21: an element's content and classes change only in a step that applies
\* the verdict received for that element, or in the click on its Show button;
\* listing the element as a candidate and having its request in flight leave
\* them as the page made them.
C21_NoMutationBeforeVerdict ==
  [][\A n \in Touched :
       \/ \E a \in NewlyApplied : a.element = n
       \/ revealListener[n] # None /\ n \notin blockedClass']_vars

\* the number of index positions of the string where conv differs from text
ChangedPositions(text, conv) == Cardinality({i \in 1..Len(text) : text[i] # conv[i]})

\* C22: for the text of a request with at least 3 characters in the CJK
\* range, isSimplifiedChinese is true exactly when the Simplified-to-
\* Traditional conversion differs from the text at strictly more index
\* positions than the Traditional-to-Simplified conversion does, and at one
\* position at least; with the script layer enabled and no keyword match the
\* verdict is then a block by the script layer.
C22_ScriptRule ==
  ChineseCharCount(msgText) >= 3 =>
    LET forward == ChangedPositions(msgText, converterS2T(msgText))
        reverse == ChangedPositions(msgText, converterT2S(msgText))
    IN /\ isSimplifiedChinese(msgText) <=> (forward > reverse /\ forward > 0)
       /\ (/\ snapshot # None /\ verdict # None
           /\ TheSnapshot.simplifiedChineseFilterEnabled
           /\ ~KeywordWouldMatch
           /\ forward > reverse /\ forward > 0)
          => (TheVerdict.shouldBlock /\ TheVerdict.matched_by = "simplified-chinese")

\* C23: a request makes one POST to the classification endpoint when its AI
\* layer is invoked and none otherwise, so at most one; the POST is made when
\* the layer is entered, and when it has settled, failed or not, the request
\* is answered without another one.
C23_OneRequestNoRetry ==
  [][/\ groqCalls' <= 1
     /\ groqCalls' = 1 <=> (\E i \in 1..Len(evaluated') : evaluated'[i] = "ai")
     /\ groqCalls' > groqCalls => bgPc = "getSettings"
     /\ bgPc = "fetch" => (bgPc' = "done" /\ groqCalls' = groqCalls)]_vars

\* C23, its case: the one POST of a request failed and the request was
\* answered after that one POST
C23_Witness ==
  /\ bgPc = "done" /\ groqCalls = 1
  /\ groqReply # None /\ IsFailedReply(TheValue(groqReply))
  /\ verdict # None /\ IsFailOpenVerdict(TheVerdict)

\* the classifier's reply held a JSON object that parsed
ParsedReply == groqReply # None /\ TheValue(groqReply).status = "ok"
               /\ TheValue(groqReply).body = "json"

\* C24: when the reply holds a JSON object that parses, a shouldBlock field
\* that is missing or is not a boolean (the string "false", a number) counts
\* as false: the classifier returns shouldBlock false and the request is not
\* blocked; only the boolean true blocks.
C24_DefensiveExtraction ==
  (ParsedReply /\ groqResult # None) =>
     /\ ~TheValue(groqResult).threw
     /\ TheValue(groqResult).shouldBlock <=> TheValue(groqReply).field = "true"
     /\ (verdict # None /\ TheVerdict.shouldBlock) => TheValue(groqReply).field = "true"

\* the reply is one of the four failures: non-success status, empty content,
\* no JSON object in the content, no shouldBlock field in the parsed object
IsFailureCondition(reply) ==
  \/ reply.status = "http_error"
  \/ reply.status = "ok" /\ reply.body \in {"no_content", "prose"}
  \/ reply.status = "ok" /\ reply.body = "json" /\ reply.field = "missing"

\* C25: each of a non-success HTTP status, an empty reply, a reply without a
\* JSON object and a parsed object without the shouldBlock field makes the
\* classifier throw, and the request is answered allow with the error
\* attached, never with a verdict of the AI layer.
C25_FailureConditions ==
  (groqReply # None /\ groqResult # None /\ IsFailureCondition(TheValue(groqReply))) =>
     /\ TheValue(groqResult).threw
     /\ verdict # None => (IsFailOpenVerdict(TheVerdict) /\ TheVerdict.matched_by # "ai")

\* the elements findTextElements returns for `root` in the current state
FoundBelow(root) == Range(findTextElements(Cur, root))

\* n and all its ancestors are rendered
RenderedUpwards(n) ==
  \A a \in NodeIds : (a = n \/ IsBelow(n, a)) => page.nodes[a].visible

C27_AnalyzedSetHasVerdict ==
  \A h \in analyzedTexts :
     \E a \in DOMAIN applied : a.textHash = h /\ a.outcome \in {"allow", "block"}

\* 31 * h + c modulo 2^32, h given by its high and low 16 bits
Times31Plus(p, c) ==
  LET lo == p[2] * 31 + c
      hi == p[1] * 31 + (lo \div 65536)
  IN <<hi % 65536, lo % 65536>>

RECURSIVE Fold31(_, _)
Fold31(p, text) ==
  IF text = <<>> \/ p[1] < 0 THEN p
  ELSE Fold31(Times31Plus(p, charCodeAt(Head(text))), Tail(text))

\* the fingerprint of C28: from 0, h becomes 31 * h + c for each code unit c,
\* wrapped to a signed 32-bit integer
Fingerprint(text) ==
  LET p == Fold31(<<0, 0>>, text)
  IN IF p[1] >= 32768 THEN (p[1] - 65536) * 65536 + p[2] ELSE p[1] * 65536 + p[2]

\* the messages the step sends
NewlySent == {m \in DOMAIN sent' : m \notin DOMAIN sent}

\* C28: the hash sent with a text is the base-36 form of the fingerprint of
\* the trimmed text: from 0, h becomes 31 * h + c for each code unit c in
\* order, wrapped to a signed 32-bit integer; the value lies in
\* [-2^31, 2^31 - 1], and equal texts are sent with equal hashes.
C28_HashFingerprint ==
  [][\A m \in NewlySent :
       LET text == trim(m.text)
           h == Fingerprint(text)
       IN /\ HashFrom(0, text) = h
          /\ h >= -2147483647 - 1 /\ h <= 2147483647
          /\ m.textHash = toString36(h)
          /\ \A m2 \in DOMAIN sent' : trim(m2.text) = text => m2.textHash = m.textHash]_vars

\* C28, its case: a text whose fingerprint wrapped to a negative value was
\* sent with its hash
C28_Witness ==
  \E m \in DOMAIN sent :
     /\ m.text = TextInsult
     /\ Fingerprint(m.text) < 0
     /\ m.textHash = <<"-", "8", "a", "r", "a", "3", "7">>

\* the node numbers of the pages of SpecPageSettling
AnyNode == 1..Len(TinyPage.nodes)

\* C29: when every classification request is answered or rejected, an element
\* that is marked as processing eventually is no longer processing, is marked
\* as processed and shows its stored content or the blocked markup, not the
\* analysing placeholder.
C29_Progress ==
  \A n \in AnyNode :
     (n \in processingElements)
       ~> (/\ n \notin processingElements
           /\ n \in processedElements
           /\ n \notin placeholderClass
           /\ content[n] \in {"orig", "blocked"})

\* C29, its case: sendMessage threw for one element and the other was
\* blocked; both were processing, are processed now and show the page's
\* content and the blocked markup
C29_Witness ==
  /\ page = TinyPage
  /\ \E a, b \in DOMAIN applied :
        /\ a.outcome = "reject" /\ content[a.element] = "orig"
        /\ b.outcome = "block" /\ content[b.element] = "blocked"
        /\ {a.element, b.element} \subseteq processedElements
  /\ processingElements = {}

\* C30: the flush that follows the insertion of an element hands the element
\* to a scan when the element itself is a candidate (visible, not skipped, 10
\* characters of text or more), also when it is the root of the inserted
\* subtree: it is in the list of elements of a scan the flush starts.
C30_InsertedRootQueued ==
  [][IsFlushStep =>
       \A r \in Range(pendingNodes) \cap NodeIds :
          (MatchesTextSelectors(r) /\ IsCandidate(Cur, r)) =>
             \E q \in DOMAIN scans :
                /\ scans'[q] # None
                /\ r \in Range(TheValue(scans'[q]).elements)]_vars

\* the step marks n as processed without a response having been applied for
\* it: analyzeElement found the hash of its text in analyzedTexts
DroppedByDedup(n) ==
  /\ n \in processedElements' /\ n \notin processedElements
  /\ ~\E a \in NewlyApplied : a.element = n

\* C31: an element that analyzeElement drops because the hash of its text is
\* in analyzedTexts is marked as processed and its content and classes stay
\* as they were; an element that was only ever dropped shows the page's
\* content, without the placeholder and without the blocked state, whatever
\* was or will be answered for the element that was sent with that text.
C31_DedupLeavesElement ==
  [][\A n \in NodeIds :
       /\ DroppedByDedup(n) =>
            /\ content'[n] = content[n]
            /\ (n \in placeholderClass') = (n \in placeholderClass)
            /\ (n \in blockedClass') = (n \in blockedClass)
            /\ n \notin processingElements'
            /\ SentFor(sent', n) = SentFor(sent, n)
       /\ (n \in processedElements' /\ SentFor(sent', n) = 0) =>
            /\ content'[n] = "orig"
            /\ n \notin placeholderClass' /\ n \notin blockedClass']_vars

\* C31, its case: of two paragraphs with the same text one was sent and
\* blocked, the other was dropped and shows the page's content
C31_Witness ==
  \E n1, n2 \in NodeIds :
    /\ n1 # n2
    /\ PageText(n1) = PageText(n2)
    /\ SentFor(sent, n1) = 1 /\ n1 \in blockedClass
    /\ SentFor(sent, n2) = 0 /\ handed[n2] > 0 /\ n2 \in processedElements
    /\ content[n2] = "orig" /\ n2 \notin blockedClass

\* C32: a hash is in analyzedTexts from the step that sends its request on
\* and is never removed; a text whose classification ended in an error
\* response or a rejection keeps its hash in analyzedTexts, its element is
\* marked as processed, and no request with that hash is sent again, for that
\* element or any other.
C32_NoRetryAfterFailure ==
  [][/\ analyzedTexts \subseteq analyzedTexts'
     /\ \A m \in NewlySent : m.textHash \notin analyzedTexts /\ m.textHash \in analyzedTexts'
     /\ \A a \in DOMAIN applied' :
          a.outcome \in {"error", "reject"} =>
             /\ a.textHash \in analyzedTexts'
             /\ a.element \in processedElements'
             /\ SentWithHash(sent', a.textHash) = 1
             /\ a \in DOMAIN applied => ~\E m \in NewlySent : m.textHash = a.textHash]_vars

\* C32, its case: the classification of an element's text ended in an error,
\* the element was handed to analyzeElement twice, and one request was sent
C32_Witness ==
  \E a \in DOMAIN applied :
     /\ a.outcome = "error" /\ a.html = "orig"
     /\ handed[a.element] = 2
     /\ a.element \notin processingElements
     /\ SentFor(sent, a.element) = 1
     /\ SentWithHash(sent, a.textHash) = 1

\* C33: the text of every classification request is the text the page gave
\* the element, never the analysing placeholder or the blocked markup the
\* extension wrote into it, also when two scans list the same element.
C33_OnlyPageContentSent ==
  \A m \in DOMAIN sent :
     /\ m.text = page.nodes[m.element].text
     /\ trim(m.text) # trim(PlaceholderText)
     /\ trim(m.text) \notin {BlockedMarkupText(r) : r \in BOOLEAN}

\* C34: between two handlers an element has the placeholder class, and its
\* content is the analysing placeholder, exactly when it is in
\* processingElements; an element that is processed and not processing
\* shows the page's content or the blocked markup.
C34_PlaceholderConsistency ==
  \A n \in NodeIds :
     /\ n \in placeholderClass <=> n \in processingElements
     /\ content[n] = "dots" <=> n \in processingElements
     /\ n \in processingElements => \E t \in tasks : t.element = n
     /\ (n \in processedElements /\ n \notin processingElements)
          => (content[n] \in {"orig", "blocked"} /\ n \notin placeholderClass)

\* C34, its case: one element shows the placeholder while its request is in
\* flight, another is processed after sendMessage threw and shows the page's
\* content
C34_Witness ==
  \E n1, n2 \in NodeIds :
     /\ n1 \in processingElements /\ n1 \in placeholderClass /\ content[n1] = "dots"
     /\ n2 \in processedElements /\ n2 \notin processingElements
     /\ \E a \in DOMAIN applied : a.element = n2 /\ a.outcome = "reject"
     /\ content[n2] = "orig" /\ n2 \notin placeholderClass

\* the step is the callback of the debounce timer
IsTimerCallback == debounceTimer = Some(0) /\ debounceTimer' = None

\* C35: no notification is lost.  A node leaves the pending set only in the
\* callback of the debounce timer, which runs when 500 ms have passed since
\* the last notification, empties the set and starts scans for the nodes it
\* held and no others: every candidate below one of them is in the list of
\* a scan this flush starts.  The list of a scan never changes afterwards
\* and no later step starts a scan of the root again.  With timers that
\* fire, a non-empty pending set is flushed.
C35_NoNotificationLost ==
  /\ [][~IsPrefix(pendingNodes, pendingNodes') =>
          /\ IsTimerCallback
          /\ sinceNotified = Some(DEBOUNCE_MS)
          /\ pendingNodes' = <<>>]_vars
  /\ [][IsTimerCallback =>
          /\ \A r \in Range(pendingNodes) :
               \A n \in Range(findTextElements(Cur, r)) :
                  \E q \in Range(pendingNodes) \cap DOMAIN scans :
                     /\ StartsScan(q)
                     /\ n \in Range(TheValue(scans'[q]).elements)
          /\ \A q \in DOMAIN scans :
               StartsScan(q) => q \in Range(pendingNodes)]_vars
  /\ [][\A q \in DOMAIN scans : scans[q] # None =>
          /\ scans'[q] # None
          /\ TheValue(scans'[q]).elements = TheScan(q).elements]_vars
  /\ (pendingNodes # <<>>) ~> (pendingNodes = <<>>)

\* C35, its case: two subtrees were inserted by separate notifications, one
\* flush started a scan of each, and both scans have gone through their
\* elements
C35_Witness ==
  /\ page = PairPage
  /\ pendingNodes = <<>>
  /\ scans[1] # None /\ scans[3] # None
  /\ TheScan(1).phase = "finished" /\ TheScan(3).phase = "finished"
  /\ TheScan(1).batchOf = TheScan(3).batchOf

\* C36: every verdict of the engine is well formed: matched_by is one of
\* keyword, simplified-chinese, ai and none; matched_keyword is present
\* exactly when matched_by is keyword; error is present only with
\* shouldBlock FALSE and matched_by none; and matched_by is none only with
\* shouldBlock FALSE.
C36_VerdictWellFormed ==
  verdict # None =>
    /\ TheVerdict.matched_by \in {"keyword", "simplified-chinese", "ai", "none"}
    /\ TheVerdict.shouldBlock \in BOOLEAN
    /\ TheVerdict.matched_keyword # None <=> TheVerdict.matched_by = "keyword"
    /\ TheVerdict.error # None =>
         (~TheVerdict.shouldBlock /\ TheVerdict.matched_by = "none")
    /\ TheVerdict.matched_by = "none" => ~TheVerdict.shouldBlock

\* C36, its case: the engine has returned a keyword verdict, which names a
\* keyword of the settings and carries no error
C36_Witness ==
  /\ verdict # None
  /\ TheVerdict.matched_by = "keyword"
  /\ TheVerdict.matched_keyword # None
  /\ IsNonEmpty(TheValue(TheVerdict.matched_keyword))
  /\ TheVerdict.error = None
  /\ responses = 1

(***************************************************************************)
(* Properties of the popup and the options page (specification             *)
(* SpecSettingsPages).                                                     *)
(***************************************************************************)
\* the step is a save of the page whose copy is `copy`: the page edits its
\* copy and writes it
IsSaveOf(copy) == copy # None /\ copy' # None /\ copy' # copy

\* C37: a save does not lose the update of the other page.  When a page
\* saves a change that leaves a field of its copy as it was, that field
\* keeps in storage the value it had there, which the other page may have
\* saved after this page loaded its copy.
C37_NoLostUpdate ==
  /\ [][IsSaveOf(optionsSettings) =>
          /\ TheValue(optionsSettings').enabledDomains = TheValue(optionsSettings).enabledDomains
               => TheValue(stored').enabledDomains = TheValue(stored).enabledDomains
          /\ TheValue(optionsSettings').allowReveal = TheValue(optionsSettings).allowReveal
               => TheValue(stored').allowReveal = TheValue(stored).allowReveal]_vars
  /\ [][IsSaveOf(popupSettings) =>
          /\ TheValue(popupSettings').enabledDomains = TheValue(popupSettings).enabledDomains
               => TheValue(stored').enabledDomains = TheValue(stored).enabledDomains
          /\ TheValue(popupSettings').allowReveal = TheValue(popupSettings).allowReveal
               => TheValue(stored').allowReveal = TheValue(stored).allowReveal]_vars

\* d is a parent of the domain: the domain is something, a dot and d
IsParentSuffix(d, domain) ==
  /\ Len(domain) > Len(d)
  /\ domain[Len(domain) - Len(d)] = "."
  /\ \A i \in 1..Len(d) : domain[Len(domain) - Len(d) + i] = d[i]

\* some entry of the list is the domain or a parent of it
Covers(list, domain) ==
  \E i \in 1..Len(list) : list[i] = domain \/ IsParentSuffix(list[i], domain)

\* the step changes the enabledDomains of the popup's copy
IsToggleStep ==
  /\ popupSettings # None /\ popupSettings' # None
  /\ TheValue(popupSettings').enabledDomains # TheValue(popupSettings).enabledDomains

\* C38: toggleCurrentSite runs for a non-null current domain only and negates
\* isDomainEnabled(currentDomain); when the domain was enabled the new list
\* is the old one without the entries that equal the domain or are a parent
\* suffix of it, in the old order, and otherwise the old one with the domain
\* appended; the copy is what is saved.
C38_SiteToggle ==
  /\ [][IsToggleStep =>
          /\ currentDomain # None
          /\ LET before == TheValue(popupSettings).enabledDomains
                 after == TheValue(popupSettings').enabledDomains
                 domain == TheValue(currentDomain)
             IN /\ isDomainEnabledPopup(before, domain) = Covers(before, domain)
                /\ isDomainEnabledPopup(after, domain) = Covers(after, domain)
                /\ Covers(after, domain) = ~Covers(before, domain)
                /\ Covers(before, domain) =>
                     after = SelectSeq(before,
                               LAMBDA d : ~(d = domain \/ IsParentSuffix(d, domain)))
                /\ ~Covers(before, domain) => after = Append(before, domain)
          /\ stored' = popupSettings']_vars
  /\ [][(IsSaveOf(popupSettings) /\ ~IsToggleStep) =>
          TheValue(popupSettings').allowReveal # TheValue(popupSettings).allowReveal]_vars

\* C38, its case: the options page still holds the list <<com, x.com>> it
\* loaded, and the popup, on a tab of m.x.com or x.com, has disabled the
\* site: both entries are gone from its copy and from the storage
C38_Witness ==
  /\ optionsSettings # None
  /\ TheValue(optionsSettings).enabledDomains = <<DomainCom, HostX>>
  /\ popupSettings # None /\ currentDomain # None
  /\ TheValue(popupSettings).enabledDomains = <<>>
  /\ stored = popupSettings

(***************************************************************************)
(* Properties of the debounce of the content script (specification         *)
(* SpecPage).                                                              *)
(***************************************************************************)
\* C39: the debounce is a two-state machine.  Between two handlers at most
\* one timeout set by debouncedProcess is armed, and it is armed exactly
\* when debounceTimer is set; while nodes are pending the timer is armed;
\* the timer's callback leaves the pending set empty and the timer idle; and
\* an idle timer is armed only by a notification, which leaves a node
\* pending.
C39_DebounceStateMachine ==
  /\ [](/\ armedTimers \in {0, 1}
        /\ armedTimers = 1 <=> debounceTimer # None
        /\ pendingNodes # <<>> => debounceTimer # None)
  /\ [][IsTimerCallback =>
          /\ pendingNodes' = <<>>
          /\ debounceTimer' = None
          /\ armedTimers' = 0]_vars
  /\ [][(debounceTimer = None /\ debounceTimer' # None) =>
          /\ pendingNodes' # <<>>
          /\ debounceTimer' = Some(DEBOUNCE_MS)
          /\ sinceNotified' = Some(0)]_vars
  /\ [][(debounceTimer # None /\ debounceTimer' = None) => debounceTimer = Some(0)]_vars

\* C39, its case: a flush has scanned an inserted subtree, and a node
\* inserted afterwards is pending with the one timer armed again
C39_Witness ==
  /\ \E r \in NodeIds : scans[r] # None /\ r \notin Range(pendingNodes)
  /\ \E n \in NodeIds : n \in Range(pendingNodes) /\ scans[n] = None
  /\ armedTimers = 1
  /\ debounceTimer # None

====
